---------------------------- MODULE Spec2Model ----------------------------
(***************************************************************************)
(* Model of the niks3 push client (client/src/main.rs, upload.rs,          *)
(* nix_store.rs): one run of push_command against a remote cache service.  *)
(*                                                                         *)
(* Strings are sequences of tokens: <<"/nix/store/", "aaa", "-", "app">>   *)
(* is the store path /nix/store/aaa-app, <<"aaa", ".narinfo">> the object  *)
(* key aaa.narinfo.  format!, strip_prefix, strip_suffix, starts_with,     *)
(* ends_with and split work on the tokens.                                 *)
(***************************************************************************)
EXTENDS Integers, Sequences, FiniteSets, TLC

(***************************************************************************)
(* Bounds                                                                  *)
(***************************************************************************)
\* max_concurrent_uploads is drawn from 0..MaxConcurrent (usize, main.rs:45)
MaxConcurrent == 3

(***************************************************************************)
(* String helpers                                                          *)
(***************************************************************************)
None == <<"None">>

EmptyString == <<>>

\* str::ends_with(suffix) for a one-token suffix
ends_with(s, suffix) == Len(s) > 0 /\ s[Len(s)] = suffix

\* str::starts_with(prefix) for a one-token prefix
starts_with(s, prefix) == Len(s) > 0 /\ s[1] = prefix

\* str::strip_prefix: Some(rest) or None
strip_prefix(s, prefix) == IF starts_with(s, prefix) THEN Tail(s) ELSE None

\* str::strip_suffix: Some(rest) or None
strip_suffix(s, suffix) ==
    IF ends_with(s, suffix) THEN SubSeq(s, 1, Len(s) - 1) ELSE None

\* Path::file_name: the tokens after the last directory token
file_name(p) ==
    LET dirs == {i \in 1..Len(p) : p[i] = "/nix/store/" \/ p[i] = "/"}
        last == IF dirs = {} THEN 0 ELSE CHOOSE i \in dirs : \A j \in dirs : j <= i
    IN  SubSeq(p, last + 1, Len(p))

\* str::split('-').next(): the tokens before the first "-"
split_first(s) ==
    LET dashes == {i \in 1..Len(s) : s[i] = "-"}
        first  == IF dashes = {} THEN Len(s) + 1
                  ELSE CHOOSE i \in dashes : \A j \in dashes : i <= j
    IN  SubSeq(s, 1, first - 1)

\* faulty variant: the name is cut at its last "-"
get_store_path_hash_LastDash(store_path) ==
    LET name == file_name(store_path)
        dashes == {i \in 1..Len(name) : name[i] = "-"}
        last == IF dashes = {} THEN Len(name) + 1
                ELSE CHOOSE i \in dashes : \A j \in dashes : j <= i
    IN  SubSeq(name, 1, last - 1)

\* nix_store.rs: get_store_path_hash
get_store_path_hash(store_path) == split_first(file_name(store_path))

(***************************************************************************)
(* The store: what `nix path-info --json` knows                            *)
(***************************************************************************)
StorePathA == <<"/nix/store/", "aaa", "-", "app">>
StorePathB == <<"/nix/store/", "bbb", "-", "lib", "-", "1.0">>
StorePathC == <<"/nix/store/", "ccc", "-", "tool">>

StorePaths == {StorePathA, StorePathB, StorePathC}

\* the roots a run is given: a path without dependencies, a path with a
\* dependency, two roots that share a dependency
RootChoices == {{StorePathB}, {StorePathA}, {StorePathA, StorePathC}}

\* the roots pushed in successive runs
RerunRootChoices == {{StorePathB}, {StorePathA}}

\* NixPathInfo as deserialized (the path field is skipped by serde)
NixStore ==
    (StorePathA :> [nar_hash |-> <<"sha256:", "nA">>, nar_size |-> 100,
                    references |-> <<StorePathB>>]) @@
    (StorePathB :> [nar_hash |-> <<"sha256:", "nB">>, nar_size |-> 50,
                    references |-> <<>>]) @@
    (StorePathC :> [nar_hash |-> <<"sha256:", "nC">>, nar_size |-> 70,
                    references |-> <<StorePathB>>])

Range(s) == {s[i] : i \in 1..Len(s)}

RECURSIVE Closure(_)
Closure(S) ==
    LET next == S \cup UNION {Range(NixStore[p].references) : p \in S}
    IN  IF next = S THEN S ELSE Closure(next)

\* nix_store.rs: get_path_info_recursive (success case): the closure of the
\* roots, each record's path populated from its map key
get_path_info_recursive(store_paths) ==
    [p \in Closure(store_paths) |->
        [path |-> p, nar_hash |-> NixStore[p].nar_hash,
         nar_size |-> NixStore[p].nar_size,
         references |-> NixStore[p].references]]

\* What compress_nar_to_file computes for a store path: the size and digest
\* of the zstd-compressed archive (upload.rs:249-269)
StagedSize(store_path)   == NixStore[store_path].nar_size \div 2
StagedHash(store_path)   == <<"sha256:", "zstd", get_store_path_hash(store_path)>>

(***************************************************************************)
(* prepare_closures (main.rs:114-157)                                      *)
(***************************************************************************)
nar_key_of(hash)     == <<"nar/">> \o hash \o <<".nar.zst">>
narinfo_key_of(hash) == hash \o <<".narinfo">>

\* the refs of the narinfo object: the reference hashes, then the own nar key
narinfo_refs_of(path_info) ==
    LET references == [i \in 1..Len(path_info.references) |->
                          get_store_path_hash(path_info.references[i])]
    IN  Append(references, nar_key_of(get_store_path_hash(path_info.path)))

\* faulty variant: a path's closure also offers the objects of its references
closure_of_WithReferences(store_path, path_info) ==
    LET hash == get_store_path_hash(store_path)
        refs == path_info.references
        ref_objects ==
            [i \in 1..(2 * Len(refs)) |->
                IF i % 2 = 1
                THEN [key |-> narinfo_key_of(get_store_path_hash(refs[(i + 1) \div 2])),
                      refs |-> <<>>]
                ELSE [key |-> nar_key_of(get_store_path_hash(refs[i \div 2])),
                      refs |-> <<>>]]
    IN  [closure |-> narinfo_key_of(hash),
         objects |-> << [key |-> narinfo_key_of(hash),
                         refs |-> narinfo_refs_of(path_info)],
                        [key |-> nar_key_of(hash), refs |-> <<>>] >> \o ref_objects]

\* one (closure key, objects) pair per path
closure_of(store_path, path_info) ==
    LET hash == get_store_path_hash(store_path)
    IN  [closure |-> narinfo_key_of(hash),
         objects |-> << [key |-> narinfo_key_of(hash),
                         refs |-> narinfo_refs_of(path_info)],
                        [key |-> nar_key_of(hash), refs |-> <<>>] >>]

\* all orders of a finite set (HashMap iteration order is arbitrary)
Orders(S) ==
    {f \in [1..Cardinality(S) -> S] : \A i, j \in 1..Cardinality(S) : f[i] = f[j] => i = j}

\* faulty variant: paths without references get no closure
prepare_closures_SkipLeaves(path_infos, order) ==
    LET kept == SelectSeq(order, LAMBDA p : path_infos[p].references # <<>>)
    IN  [i \in 1..Len(kept) |-> closure_of(kept[i], path_infos[kept[i]])]

\* the closures vector, for one iteration order of path_infos
prepare_closures(path_infos, order) ==
    [i \in 1..Len(order) |-> closure_of(order[i], path_infos[order[i]])]

\* path_info_by_hash: later inserts overwrite earlier ones
path_info_by_hash_of(path_infos, order) ==
    LET hashes == {get_store_path_hash(p) : p \in DOMAIN path_infos}
        lastOf(h) == CHOOSE i \in 1..Len(order) :
                        /\ get_store_path_hash(order[i]) = h
                        /\ \A j \in 1..Len(order) :
                              get_store_path_hash(order[j]) = h => j <= i
    IN  [h \in hashes |-> [store_path |-> order[lastOf(h)],
                           path_info |-> path_infos[order[lastOf(h)]]]]

AllKeys ==
    UNION {{narinfo_key_of(get_store_path_hash(p)), nar_key_of(get_store_path_hash(p))}
           : p \in StorePaths}


(***************************************************************************)
(* State                                                                   *)
(***************************************************************************)
VARIABLES
    pc,                     \* where push_command is
    error,                  \* the Err push_command returned, or "none"
    paths,                  \* Commands::Push.paths: the roots
    max_concurrent_uploads, \* Commands::Push.max_concurrent_uploads
    auth_token,             \* UploadClient.auth_token
    earlier,                \* what the runs before this one left behind
    path_infos,             \* HashMap<String, NixPathInfo>
    path_info_by_hash,      \* PreparedClosures.path_info_by_hash
    closures,               \* all_closures still to negotiate
    pending_objects,        \* HashMap<String, PendingObject>, merged by key
    pending_ids,            \* Vec<String> of transaction ids
    narinfo_uploads,        \* Vec<(String, PendingObject)>
    compressed_info,        \* HashMap<String, (usize, String)>
    tasks,                  \* the futures of the current batch, in stream order
    started,                \* how many of them buffer_unordered has pulled
    in_flight,              \* indices of the futures in the in-progress queue
    results,                \* collected outcomes, in completion order
    stored,                 \* service: keys of the objects it has stored
    transactions,           \* service: the pending closures it has issued
    puts_sent,              \* service: PUT requests received per key
    puts_failed,            \* service: keys with a PUT it answered non-2xx
    transferred,            \* service: keys PUT successfully in this run
    sent_bodies,            \* service: the PUT request received for each key
    api_requests,           \* service: the API requests received in this run
    file_counter,           \* staging: UploadTempDir.file_counter
    temp_dir,               \* staging: whether the TempDir exists
    temp_files,             \* staging: the files in the TempDir
    stage,                  \* staging: each compress-and-upload task
    nar_root,               \* codec: the file tree dump_path is given
    use_case_hack,          \* codec: USE_CASE_HACK of the build
    enumerations,           \* codec: the order read_dir used, per call
    nar_result,             \* codec: what each call of dump_path returned
    encode_input,           \* addressing: the bytes nix_base32::encode is given
    encode_result,          \* addressing: <<what encode returned>>, or <<>>
    hash_calls              \* addressing: the calls of get_store_path_hash

\* the staging pipeline, the codec and the addressing functions are followed
\* on their own, in SpecStage, SpecNar and SpecAddressing; the steps of
\* push_command leave them alone
stage_vars == <<file_counter, temp_dir, temp_files, stage>>
nar_vars == <<nar_root, use_case_hack, enumerations, nar_result>>
command_vars == <<paths, max_concurrent_uploads, auth_token, earlier>>
addressing_vars == <<encode_input, encode_result, hash_calls>>
inputs == <<command_vars, stage_vars, nar_vars, addressing_vars>>
locals == <<path_infos, path_info_by_hash, closures, pending_objects,
            pending_ids, narinfo_uploads, compressed_info>>
client_vars == <<pc, error, inputs, locals>>
batch_vars == <<tasks, started, in_flight, results>>
api_vars == <<transactions, api_requests>>
service_vars == <<stored, api_vars, puts_sent, puts_failed, transferred,
                  sent_bodies>>
push_vars == <<pc, error, command_vars, locals, batch_vars, service_vars>>
vars == <<push_vars, stage_vars, nar_vars, addressing_vars>>

EmptyMap == [k \in {} |-> None]

Ok(v)  == [ok |-> TRUE, value |-> v]
Err(e) == [ok |-> FALSE, error |-> e]

\* ids the service hands out, one per negotiation
TxIds == <<"tx1", "tx2", "tx3">>

KeysOf(ps) ==
    UNION {{narinfo_key_of(get_store_path_hash(p)), nar_key_of(get_store_path_hash(p))}
           : p \in ps}

\* the bearer tokens a run may be started with
AuthTokens == {<<"token1">>, <<"token2">>}

\* no run before this one
NoEarlierRun == [runs |-> 0, transferred |-> {}, succeeded |-> FALSE]

\* the staging pipeline and the codec at rest
StageIdle ==
    /\ file_counter = 0
    /\ temp_dir = FALSE
    /\ temp_files = {}
    /\ stage = <<>>

NarIdle ==
    nar_root = None /\ use_case_hack = FALSE /\ enumerations = <<>> /\ nar_result = <<>>

AddressingIdle ==
    encode_input = None /\ encode_result = <<>> /\ hash_calls = <<>>

\* push_command at its start, for the given roots and tokens
InitPush(roots, tokens) ==
    /\ pc = "start"
    /\ error = "none"
    /\ paths \in roots
    /\ max_concurrent_uploads \in 0..MaxConcurrent
    /\ auth_token \in tokens
    /\ earlier = NoEarlierRun
    /\ path_infos = EmptyMap
    /\ path_info_by_hash = EmptyMap
    /\ closures = <<>>
    /\ pending_objects = EmptyMap
    /\ pending_ids = <<>>
    /\ narinfo_uploads = {}
    /\ compressed_info = EmptyMap
    /\ tasks = <<>>
    /\ started = 0
    /\ in_flight = {}
    /\ results = <<>>
    /\ stored \in SUBSET KeysOf(Closure(paths))
    /\ transactions = <<>>
    /\ puts_sent = [k \in AllKeys |-> 0]
    /\ puts_failed = {}
    /\ transferred = {}
    /\ sent_bodies = EmptyMap
    /\ api_requests = <<>>

\* the state after construction, for the given roots and tokens
InitWith(roots, tokens) ==
    InitPush(roots, tokens) /\ StageIdle /\ NarIdle /\ AddressingIdle

Init == InitWith(RootChoices, {<<"token1">>})

\* push_command at rest, where the pipeline or the codec is followed alone
PushIdle ==
    /\ InitPush({{StorePathB}}, {<<"token1">>})
    /\ max_concurrent_uploads = 1
    /\ stored = {}

\* push_command returns or the process ends: its locals are dropped
DropLocals ==
    /\ path_infos' = EmptyMap
    /\ path_info_by_hash' = EmptyMap
    /\ closures' = <<>>
    /\ pending_objects' = EmptyMap
    /\ pending_ids' = <<>>
    /\ narinfo_uploads' = {}
    /\ compressed_info' = EmptyMap
    /\ tasks' = <<>>
    /\ started' = 0
    /\ in_flight' = {}
    /\ results' = <<>>

\* push_command returns Err(e)
Fail(e) == pc' = "failed" /\ error' = e /\ DropLocals

(***************************************************************************)
(* push_command, main.rs:81-86: metadata and prepare_closures              *)
(***************************************************************************)
GetPathInfo ==
    /\ pc = "start"
    /\ \/ Fail("metadata")
       \/ \E order \in Orders(Closure(paths)) :
             LET infos == get_path_info_recursive(paths)
             IN  /\ path_infos' = infos
                 /\ closures' = prepare_closures(infos, order)
                 /\ path_info_by_hash' = path_info_by_hash_of(infos, order)
                 /\ pc' = "negotiating"
                 /\ UNCHANGED <<error, pending_objects, pending_ids,
                                narinfo_uploads, compressed_info, batch_vars>>
    /\ UNCHANGED <<inputs, service_vars>>

(***************************************************************************)
(* The service's negotiate endpoint, POST /api/pending_closures            *)
(***************************************************************************)
\* the presigned upload target the service issues for a key
presigned_url_of(id, key) == [tx |-> id, key |-> key]

\* the offered objects the service has not stored, each with its target
service_pending_objects(id, objects) ==
    LET offered == {objects[i].key : i \in 1..Len(objects)}
    IN  [k \in offered \ stored |-> [presigned_url |-> presigned_url_of(id, k)]]

\* the service receives an API request and answers it 2xx or not
ReceiveApi(request, success) ==
    api_requests' = Append(api_requests, [request |-> request, success |-> success])

\* the POST of create_pending_closure (upload.rs:128-142)
create_pending_closure_request(token, closure, objects) ==
    [method |-> "POST",
     url |-> <<"api/pending_closures">>,
     headers |-> {"Authorization", "Content-Type"},
     authorization |-> <<"Bearer ">> \o token,
     json |-> [closure |-> closure, objects |-> objects]]

\* faulty variant: the pending objects of a response replace those of the
\* responses before it
merge_pending_Replaced(old, response_pending) == response_pending

\* HashMap::insert of every (key, obj) of the response (main.rs:175-177)
merge_pending(old, response_pending) == response_pending @@ old

(***************************************************************************)
(* create_pending_closures, main.rs:159-181: one loop iteration            *)
(***************************************************************************)
\* faulty variant: a failed negotiation is skipped and the loop goes on
Negotiate_SkipFailed ==
    /\ pc = "negotiating"
    /\ closures # <<>>
    /\ LET c  == Head(closures)
           id == TxIds[Len(transactions) + 1]
           pending == service_pending_objects(id, c.objects)
           request == create_pending_closure_request(auth_token, c.closure, c.objects)
       IN  \/ /\ closures' = Tail(closures)
              /\ ReceiveApi(request, FALSE)
              /\ UNCHANGED <<transactions, pending_ids, pending_objects>>
           \/ /\ ReceiveApi(request, TRUE)
              /\ transactions' = Append(transactions,
                    [id |-> id, closure |-> c.closure, objects |-> c.objects,
                     pending |-> DOMAIN pending, completed |-> 0])
              /\ pending_ids' = Append(pending_ids, id)
              /\ pending_objects' = merge_pending(pending_objects, pending)
              /\ closures' = Tail(closures)
    /\ UNCHANGED <<pc, error, path_infos, path_info_by_hash,
                   narinfo_uploads, compressed_info, batch_vars>>
    /\ UNCHANGED inputs
    /\ UNCHANGED <<stored, puts_sent, puts_failed, transferred, sent_bodies>>

\* faulty variant: a closure with nothing pending is not kept for completion
Negotiate_SkipEmpty ==
    /\ pc = "negotiating"
    /\ closures # <<>>
    /\ LET c  == Head(closures)
           id == TxIds[Len(transactions) + 1]
           pending == service_pending_objects(id, c.objects)
           request == create_pending_closure_request(auth_token, c.closure, c.objects)
       IN  \/ /\ Fail("negotiate")
              /\ ReceiveApi(request, FALSE)
              /\ UNCHANGED transactions
           \/ /\ ReceiveApi(request, TRUE)
              /\ transactions' = Append(transactions,
                    [id |-> id, closure |-> c.closure, objects |-> c.objects,
                     pending |-> DOMAIN pending, completed |-> 0])
              /\ pending_ids' = IF DOMAIN pending = {} THEN pending_ids
                                ELSE Append(pending_ids, id)
              /\ pending_objects' = merge_pending(pending_objects, pending)
              /\ closures' = Tail(closures)
              /\ UNCHANGED <<pc, error, path_infos, path_info_by_hash,
                             narinfo_uploads, compressed_info, batch_vars>>
    /\ UNCHANGED inputs
    /\ UNCHANGED <<stored, puts_sent, puts_failed, transferred, sent_bodies>>

Negotiate ==
    /\ pc = "negotiating"
    /\ closures # <<>>
    /\ LET c  == Head(closures)
           id == TxIds[Len(transactions) + 1]
           pending == service_pending_objects(id, c.objects)
           request == create_pending_closure_request(auth_token, c.closure, c.objects)
       IN  \/ /\ Fail("negotiate")
              /\ ReceiveApi(request, FALSE)
              /\ UNCHANGED transactions
           \/ /\ ReceiveApi(request, TRUE)
              /\ transactions' = Append(transactions,
                    [id |-> id, closure |-> c.closure, objects |-> c.objects,
                     pending |-> DOMAIN pending, completed |-> 0])
              /\ pending_ids' = Append(pending_ids, id)
              /\ pending_objects' = merge_pending(pending_objects, pending)
              /\ closures' = Tail(closures)
              /\ UNCHANGED <<pc, error, path_infos, path_info_by_hash,
                             narinfo_uploads, compressed_info, batch_vars>>
    /\ UNCHANGED inputs
    /\ UNCHANGED <<stored, puts_sent, puts_failed, transferred, sent_bodies>>

(***************************************************************************)
(* upload_pending_objects, main.rs:189-199: the partition by key pattern   *)
(***************************************************************************)
is_narinfo_key(object_key) == ends_with(object_key, ".narinfo")
is_nar_key(object_key) == ~is_narinfo_key(object_key) /\ starts_with(object_key, "nar/")

\* The two vectors hold the matching entries in the iteration order of the
\* HashMap, which is arbitrary: each is kept as the set of its entries, and
\* its order is drawn where the vector is turned into the futures of a batch.
nar_uploads_of(pending) ==
    {[object_key |-> k, pending_object |-> pending[k]] :
        k \in {k \in DOMAIN pending : is_nar_key(k)}}

narinfo_uploads_of(pending) ==
    {[object_key |-> k, pending_object |-> pending[k]] :
        k \in {k \in DOMAIN pending : is_narinfo_key(k)}}

(***************************************************************************)
(* upload_nars, main.rs:239-254: compression_data                          *)
(***************************************************************************)
\* the hash of a nar key, or None
nar_key_hash(object_key) ==
    LET nar_name == strip_prefix(object_key, "nar/")
    IN  IF nar_name = None THEN None ELSE strip_suffix(nar_name, ".nar.zst")

\* faulty variant: no hash is found among the path records
has_compression_data_NotFound(u, by_hash) == FALSE

has_compression_data(u, by_hash) ==
    /\ nar_key_hash(u.object_key) # None
    /\ nar_key_hash(u.object_key) \in DOMAIN by_hash

RECURSIVE compression_data(_, _)
compression_data(nar_uploads, by_hash) ==
    IF nar_uploads = <<>> THEN <<>>
    ELSE LET u == Head(nar_uploads)
             rest == compression_data(Tail(nar_uploads), by_hash)
         IN  IF has_compression_data(u, by_hash)
             THEN <<[object_key |-> u.object_key,
                     pending_object |-> u.pending_object,
                     store_path |-> by_hash[nar_key_hash(u.object_key)].store_path,
                     hash |-> nar_key_hash(u.object_key)]>> \o rest
             ELSE rest

\* faulty variant: the narinfo batch runs without the archive batches before it
StartUploads_NarinfosFirst ==
    /\ pc = "negotiating"
    /\ closures = <<>>
    /\ \E order \in Orders(narinfo_uploads_of(pending_objects)) :
          /\ narinfo_uploads' = narinfo_uploads_of(pending_objects)
          /\ tasks' = order
          /\ pc' = "narinfos"
          /\ UNCHANGED <<error, started, in_flight, results, path_infos,
                         path_info_by_hash, closures, pending_objects,
                         pending_ids, compressed_info>>
    /\ UNCHANGED <<inputs, service_vars>>

\* main.rs:183-279 up to the first await of the compression batch
StartUploads ==
    /\ pc = "negotiating"
    /\ closures = <<>>
    /\ \/ Fail("tempdir")
       \/ \E order \in Orders(nar_uploads_of(pending_objects)) :
             /\ narinfo_uploads' = narinfo_uploads_of(pending_objects)
             /\ tasks' = compression_data(order, path_info_by_hash)
             /\ pc' = "compressing"
             /\ UNCHANGED <<error, started, in_flight, results, path_infos,
                            path_info_by_hash, closures, pending_objects,
                            pending_ids, compressed_info>>
    /\ UNCHANGED <<inputs, service_vars>>

(***************************************************************************)
(* buffer_unordered(max_concurrent_uploads).collect()                      *)
(***************************************************************************)
\* the first error of the collected results, in completion order, or "none"
FirstError(rs) ==
    LET bad == {i \in 1..Len(rs) : ~rs[i].ok}
    IN  IF bad = {} THEN "none"
        ELSE rs[CHOOSE i \in bad : \A j \in bad : i <= j].error

\* faulty variant: the stream pulls every future at once
CanStart_Unbounded(inflight, max) == TRUE

\* the stream pulls the next future only while the in-progress queue is
\* shorter than the bound
CanStart(inflight, max) == Cardinality(inflight) < max

\* faulty variant: collect() returns as soon as one collected result is an error
BatchDone_FailFast(all, nstarted, inflight, max) ==
    /\ max >= 1
    /\ \/ nstarted = Len(all) /\ inflight = {}
       \/ FirstError(results) # "none"

\* collect() returns when the in-progress queue is empty and the source
\* stream has been polled to its end, which takes a bound of at least 1
BatchDone(all, nstarted, inflight, max) ==
    /\ max >= 1
    /\ nstarted = Len(all)
    /\ inflight = {}

(***************************************************************************)
(* upload_nars, main.rs:256-279: the compression batch                     *)
(***************************************************************************)
\* upload.rs:206-270: the CompressedFile compress_nar_to_file returns
compress_nar_to_file(store_path) ==
    [size |-> StagedSize(store_path), hash |-> StagedHash(store_path)]

CompressStart ==
    /\ pc = "compressing"
    /\ started < Len(tasks)
    /\ CanStart(in_flight, max_concurrent_uploads)
    /\ started' = started + 1
    /\ in_flight' = in_flight \cup {started + 1}
    /\ UNCHANGED <<tasks, results>>
    /\ UNCHANGED <<client_vars, service_vars>>

\* a compression future completes: Ok((compressed_file, object_key,
\* pending_object, hash)) or the error of compress_nar_to_file
CompressFinish ==
    /\ pc = "compressing"
    /\ \E i \in in_flight :
          LET t == tasks[i]
          IN  /\ in_flight' = in_flight \ {i}
              /\ \/ results' = Append(results,
                        Ok([compressed_file |-> compress_nar_to_file(t.store_path),
                            object_key |-> t.object_key,
                            pending_object |-> t.pending_object,
                            hash |-> t.hash]))
                 \/ results' = Append(results, Err("compress"))
    /\ UNCHANGED <<tasks, started>>
    /\ UNCHANGED <<client_vars, service_vars>>

\* main.rs:279-315: the compression results become the upload tasks
CompressCollect ==
    /\ pc = "compressing"
    /\ BatchDone(tasks, started, in_flight, max_concurrent_uploads)
    /\ pc' = "uploading"
    /\ tasks' = results
    /\ started' = 0
    /\ results' = <<>>
    /\ in_flight' = {}
    /\ UNCHANGED <<error, inputs, locals, service_vars>>

(***************************************************************************)
(* upload_nars, main.rs:281-315: the archive transfer batch                *)
(***************************************************************************)
\* faulty variant: the archive PUT goes out with the client's bearer token
nar_put_request_WithToken(compressed_file, object_key) ==
    [method |-> "PUT",
     headers |-> {"Content-Length", "Authorization"},
     authorization |-> <<"Bearer ">> \o auth_token,
     content_length |-> compressed_file.size,
     body |-> [zstd_nar |-> object_key, hash |-> compressed_file.hash]]

\* the PUT request of upload_compressed_file (upload.rs:296-303)
nar_put_request(compressed_file, object_key) ==
    [method |-> "PUT",
     headers |-> {"Content-Length"},
     content_length |-> compressed_file.size,
     body |-> [zstd_nar |-> object_key, hash |-> compressed_file.hash]]

\* the service receives a PUT for a presigned target
ReceivePut(url, request) ==
    /\ puts_sent' = [puts_sent EXCEPT ![url.key] = @ + 1]
    /\ sent_bodies' = (url.key :> request) @@ sent_bodies

\* the service answers a PUT: 2xx stores the object, anything else does not
AnswerPut(url, success) ==
    IF success
    THEN /\ stored' = stored \cup {url.key}
         /\ transferred' = transferred \cup {url.key}
         /\ puts_failed' = puts_failed
    ELSE /\ puts_failed' = puts_failed \cup {url.key}
         /\ UNCHANGED <<stored, transferred>>

\* an upload future is polled first: `result?` ends it at once when the
\* compression failed, otherwise the PUT goes out
UploadStart ==
    /\ pc = "uploading"
    /\ started < Len(tasks)
    /\ CanStart(in_flight, max_concurrent_uploads)
    /\ started' = started + 1
    /\ LET t == tasks[started + 1]
       IN  IF t.ok
           THEN /\ in_flight' = in_flight \cup {started + 1}
                /\ ReceivePut(t.value.pending_object.presigned_url,
                              nar_put_request(t.value.compressed_file,
                                              t.value.object_key))
                /\ results' = results
           ELSE /\ results' = Append(results, Err(t.error))
                /\ UNCHANGED <<in_flight, puts_sent, sent_bodies>>
    /\ UNCHANGED tasks
    /\ UNCHANGED <<stored, api_vars, puts_failed, transferred>>
    /\ UNCHANGED client_vars

\* faulty variant: the status of the response is not looked at
UploadFinish_StatusUnchecked ==
    /\ pc = "uploading"
    /\ \E i \in in_flight : \E success \in BOOLEAN :
          LET v == tasks[i].value
          IN  /\ in_flight' = in_flight \ {i}
              /\ AnswerPut(v.pending_object.presigned_url, success)
              /\ results' = Append(results,
                    Ok([hash |-> v.hash,
                        info |-> [size |-> v.compressed_file.size,
                                  file_hash |-> v.compressed_file.hash]]))
    /\ UNCHANGED <<tasks, started>>
    /\ UNCHANGED <<api_vars, puts_sent, sent_bodies>>
    /\ UNCHANGED client_vars

\* the PUT is answered: Ok((hash, (size, file_hash))) or the upload error
UploadFinish ==
    /\ pc = "uploading"
    /\ \E i \in in_flight : \E success \in BOOLEAN :
          LET v == tasks[i].value
          IN  /\ in_flight' = in_flight \ {i}
              /\ AnswerPut(v.pending_object.presigned_url, success)
              /\ results' = Append(results,
                    IF success
                    THEN Ok([hash |-> v.hash,
                             info |-> [size |-> v.compressed_file.size,
                                       file_hash |-> v.compressed_file.hash]])
                    ELSE Err("upload"))
    /\ UNCHANGED <<tasks, started>>
    /\ UNCHANGED <<api_vars, puts_sent, sent_bodies>>
    /\ UNCHANGED client_vars

\* main.rs:317-325: compressed_info from the results, inserted in order
RECURSIVE collect_compressed_info(_)
collect_compressed_info(rs) ==
    IF rs = <<>> THEN EmptyMap
    ELSE LET r == rs[Len(rs)]
             before == collect_compressed_info(SubSeq(rs, 1, Len(rs) - 1))
         IN  IF r.value.hash # EmptyString
             THEN (r.value.hash :> r.value.info) @@ before
             ELSE before

\* faulty variant: the failed results of the archive batch are passed over
UploadCollect_ErrorsIgnored ==
    /\ pc = "uploading"
    /\ BatchDone(tasks, started, in_flight, max_concurrent_uploads)
    /\ \E order \in Orders(narinfo_uploads) :
          /\ compressed_info' =
                 collect_compressed_info(SelectSeq(results, LAMBDA r : r.ok))
          /\ pc' = "narinfos"
          /\ tasks' = order
          /\ started' = 0
          /\ results' = <<>>
          /\ in_flight' = {}
          /\ UNCHANGED <<error, path_infos, path_info_by_hash,
                         closures, pending_objects, pending_ids,
                         narinfo_uploads>>
    /\ UNCHANGED <<inputs, service_vars>>

\* main.rs:315-325 and 209-220, 335-377: the results are checked, then the
\* narinfo futures are built
UploadCollect ==
    /\ pc = "uploading"
    /\ BatchDone(tasks, started, in_flight, max_concurrent_uploads)
    /\ IF FirstError(results) # "none"
       THEN Fail(FirstError(results))
       ELSE \E order \in Orders(narinfo_uploads) :
               /\ compressed_info' = collect_compressed_info(results)
               /\ pc' = "narinfos"
               /\ tasks' = order
               /\ started' = 0
               /\ results' = <<>>
               /\ in_flight' = {}
               /\ UNCHANGED <<error, path_infos, path_info_by_hash,
                              closures, pending_objects, pending_ids,
                              narinfo_uploads>>
    /\ UNCHANGED <<inputs, service_vars>>

(***************************************************************************)
(* create_narinfo, main.rs:395-454: the text as a sequence of lines        *)
(***************************************************************************)
Line(k, v) == [key |-> k, value |-> v]

\* strip_prefix("/nix/store/").unwrap_or(reference)
store_basename(reference) ==
    IF strip_prefix(reference, "/nix/store/") = None THEN reference
    ELSE strip_prefix(reference, "/nix/store/")

\* faulty variant: the URL line carries the file name without the nar/ prefix
create_narinfo_BareUrl(path_info, nar_filename, compressed_size, file_hash) ==
    << Line("StorePath", path_info.path),
       Line("URL", nar_filename),
       Line("Compression", <<"zstd">>),
       Line("NarHash", path_info.nar_hash),
       Line("NarSize", path_info.nar_size),
       Line("FileHash", file_hash),
       Line("FileSize", compressed_size),
       Line("References", [i \in 1..Len(path_info.references) |->
                              store_basename(path_info.references[i])]) >>

create_narinfo(path_info, nar_filename, compressed_size, file_hash) ==
    << Line("StorePath", path_info.path),
       Line("URL", <<"nar/">> \o nar_filename),
       Line("Compression", <<"zstd">>),
       Line("NarHash", path_info.nar_hash),
       Line("NarSize", path_info.nar_size),
       Line("FileHash", file_hash),
       Line("FileSize", compressed_size),
       Line("References", [i \in 1..Len(path_info.references) |->
                              store_basename(path_info.references[i])]) >>

\* the value of the first line with the given key
Field(narinfo, k) ==
    narinfo[CHOOSE i \in 1..Len(narinfo) :
                /\ narinfo[i].key = k
                /\ \A j \in 1..Len(narinfo) : narinfo[j].key = k => i <= j].value

(***************************************************************************)
(* upload_narinfos, main.rs:328-385: the narinfo batch                     *)
(***************************************************************************)
\* the hash of a narinfo key that has a path record, or None (main.rs:343-344)
narinfo_key_hash(object_key, by_hash) ==
    LET hash == strip_suffix(object_key, ".narinfo")
    IN  IF hash # None /\ hash \in DOMAIN by_hash THEN hash ELSE None

\* compressed_info.get(hash).cloned().unwrap_or((0, String::new()))
compressed_info_or_default(info, hash) ==
    IF hash \in DOMAIN info THEN info[hash]
    ELSE [size |-> 0, file_hash |-> EmptyString]

\* main.rs:348-359: the narinfo rendered for a pending narinfo key
render_narinfo(hash, by_hash, info) ==
    create_narinfo(by_hash[hash].path_info,
                   hash \o <<".nar.zst">>,
                   compressed_info_or_default(info, hash).size,
                   compressed_info_or_default(info, hash).file_hash)

\* the PUT request of upload_bytes_to_presigned_url (upload.rs:182-189)
narinfo_put_request(content) ==
    [method |-> "PUT",
     headers |-> {"Content-Length"},
     content_length |-> Len(content),
     body |-> content]

\* a narinfo future is polled first: the narinfo is rendered and its PUT
\* goes out; a key without a path record ends Ok(()) at once
NarinfoStart ==
    /\ pc = "narinfos"
    /\ started < Len(tasks)
    /\ CanStart(in_flight, max_concurrent_uploads)
    /\ started' = started + 1
    /\ LET t == tasks[started + 1]
           hash == narinfo_key_hash(t.object_key, path_info_by_hash)
       IN  IF hash # None
           THEN /\ in_flight' = in_flight \cup {started + 1}
                /\ ReceivePut(t.pending_object.presigned_url,
                              narinfo_put_request(
                                 render_narinfo(hash, path_info_by_hash,
                                                compressed_info)))
                /\ results' = results
           ELSE /\ results' = Append(results, Ok("unit"))
                /\ UNCHANGED <<in_flight, puts_sent, sent_bodies>>
    /\ UNCHANGED tasks
    /\ UNCHANGED <<stored, api_vars, puts_failed, transferred>>
    /\ UNCHANGED client_vars

NarinfoFinish ==
    /\ pc = "narinfos"
    /\ \E i \in in_flight : \E success \in BOOLEAN :
          /\ in_flight' = in_flight \ {i}
          /\ AnswerPut(tasks[i].pending_object.presigned_url, success)
          /\ results' = Append(results,
                IF success THEN Ok("unit") ELSE Err("upload"))
    /\ UNCHANGED <<tasks, started>>
    /\ UNCHANGED <<api_vars, puts_sent, sent_bodies>>
    /\ UNCHANGED client_vars

\* faulty variant: the collected narinfo results are not checked
NarinfoCollect_Unchecked ==
    /\ pc = "narinfos"
    /\ BatchDone(tasks, started, in_flight, max_concurrent_uploads)
    /\ pc' = "completing"
    /\ UNCHANGED <<error, locals, batch_vars>>
    /\ UNCHANGED <<inputs, service_vars>>

\* main.rs:377-384 and 220-222
NarinfoCollect ==
    /\ pc = "narinfos"
    /\ BatchDone(tasks, started, in_flight, max_concurrent_uploads)
    /\ IF FirstError(results) # "none"
       THEN Fail(FirstError(results))
       ELSE pc' = "completing" /\ UNCHANGED <<error, locals, batch_vars>>
    /\ UNCHANGED <<inputs, service_vars>>

(***************************************************************************)
(* complete_closures, main.rs:387-393                                      *)
(***************************************************************************)
\* the service marks the transaction with this id complete
service_complete(txs, id) ==
    [i \in 1..Len(txs) |->
        IF txs[i].id = id THEN [txs[i] EXCEPT !.completed = @ + 1] ELSE txs[i]]

\* the POST of complete_pending_closure (upload.rs:320-331)
complete_pending_closure_request(token, closure_id) ==
    [method |-> "POST",
     url |-> <<"api/pending_closures/", closure_id, "/complete">>,
     headers |-> {"Authorization"},
     authorization |-> <<"Bearer ">> \o token]

\* faulty variant: a complete request answered non-2xx is sent again
Complete_Retry ==
    /\ pc = "completing"
    /\ pending_ids # <<>>
    /\ \/ /\ ReceiveApi(complete_pending_closure_request(auth_token,
                                                        Head(pending_ids)), FALSE)
          /\ UNCHANGED <<transactions, pc, error, locals, batch_vars>>
       \/ /\ ReceiveApi(complete_pending_closure_request(auth_token,
                                                        Head(pending_ids)), TRUE)
          /\ transactions' = service_complete(transactions, Head(pending_ids))
          /\ pending_ids' = Tail(pending_ids)
          /\ UNCHANGED <<pc, error, path_infos, path_info_by_hash, closures,
                         pending_objects, narinfo_uploads, compressed_info,
                         batch_vars>>
    /\ UNCHANGED inputs
    /\ UNCHANGED <<stored, puts_sent, puts_failed, transferred, sent_bodies>>

\* faulty variant: after a complete request answered non-2xx the loop goes
\* on with the next id
Complete_ContinueAfterFailure ==
    /\ pc = "completing"
    /\ pending_ids # <<>>
    /\ \/ /\ ReceiveApi(complete_pending_closure_request(auth_token,
                                                        Head(pending_ids)), FALSE)
          /\ UNCHANGED transactions
       \/ /\ ReceiveApi(complete_pending_closure_request(auth_token,
                                                        Head(pending_ids)), TRUE)
          /\ transactions' = service_complete(transactions, Head(pending_ids))
    /\ pending_ids' = Tail(pending_ids)
    /\ UNCHANGED <<pc, error, path_infos, path_info_by_hash, closures,
                   pending_objects, narinfo_uploads, compressed_info,
                   batch_vars>>
    /\ UNCHANGED inputs
    /\ UNCHANGED <<stored, puts_sent, puts_failed, transferred, sent_bodies>>

\* one loop iteration: POST /api/pending_closures/{id}/complete
Complete ==
    /\ pc = "completing"
    /\ pending_ids # <<>>
    /\ \/ /\ Fail("complete")
          /\ ReceiveApi(complete_pending_closure_request(auth_token,
                                                        Head(pending_ids)), FALSE)
          /\ UNCHANGED transactions
       \/ /\ ReceiveApi(complete_pending_closure_request(auth_token,
                                                        Head(pending_ids)), TRUE)
          /\ transactions' = service_complete(transactions, Head(pending_ids))
          /\ pending_ids' = Tail(pending_ids)
          /\ UNCHANGED <<pc, error, path_infos, path_info_by_hash, closures,
                         pending_objects, narinfo_uploads, compressed_info,
                         batch_vars>>
    /\ UNCHANGED inputs
    /\ UNCHANGED <<stored, puts_sent, puts_failed, transferred, sent_bodies>>

\* faulty variant: push_command returns Ok(()) before the loop has ended
Finish_Early ==
    /\ pc = "completing"
    /\ pc' = "done"
    /\ DropLocals
    /\ UNCHANGED <<error, inputs, service_vars>>

\* main.rs:110-111: push_command returns Ok(())
Finish ==
    /\ pc = "completing"
    /\ pending_ids = <<>>
    /\ pc' = "done"
    /\ DropLocals
    /\ UNCHANGED <<error, inputs, service_vars>>

\* the process is killed at any point of the run
Crash ==
    /\ pc \notin {"done", "failed", "crashed"}
    /\ pc' = "crashed"
    /\ DropLocals
    /\ UNCHANGED <<error, inputs, service_vars>>

Next ==
    \/ GetPathInfo
    \/ Negotiate
    \/ StartUploads
    \/ CompressStart
    \/ CompressFinish
    \/ CompressCollect
    \/ UploadStart
    \/ UploadFinish
    \/ UploadCollect
    \/ NarinfoStart
    \/ NarinfoFinish
    \/ NarinfoCollect
    \/ Complete
    \/ Finish
    \/ Crash

Spec == Init /\ [][Next]_vars

(***************************************************************************)
(* Successive runs of push_command (main.rs:72-112) over the same roots,   *)
(* against the same service: the service keeps the objects it has stored,  *)
(* and what it saw of the run that ended is kept in `earlier`.             *)
(***************************************************************************)
\* how many runs are followed
MaxRuns == 2

\* the command is run again after it returned or was killed
Rerun ==
    /\ pc \in {"done", "failed", "crashed"}
    /\ earlier.runs + 1 < MaxRuns
    /\ earlier' = [runs |-> earlier.runs + 1,
                   transferred |-> earlier.transferred \cup transferred,
                   succeeded |-> earlier.succeeded \/ pc = "done"]
    /\ pc' = "start"
    /\ error' = "none"
    /\ transactions' = <<>>
    /\ api_requests' = <<>>
    /\ puts_sent' = [k \in AllKeys |-> 0]
    /\ puts_failed' = {}
    /\ transferred' = {}
    /\ sent_bodies' = EmptyMap
    /\ UNCHANGED <<paths, max_concurrent_uploads, auth_token, stored>>
    /\ UNCHANGED <<locals, batch_vars, stage_vars, nar_vars, addressing_vars>>

InitRuns == InitWith(RerunRootChoices, AuthTokens)

NextRuns ==
    \/ Next
    \/ Rerun

SpecRuns == InitRuns /\ [][NextRuns]_vars

(***************************************************************************)
(* Properties                                                              *)
(***************************************************************************)
Txs == Range(transactions)

\* the keys some negotiation of the run reported pending
PendingKeys == UNION {tx.pending : tx \in Txs}

\* the closure of every choice of roots, and the hash of every store path
ClosureOfRoots == [r \in RootChoices \cup RerunRootChoices |-> Closure(r)]
HashOfPath == [p \in StorePaths |-> get_store_path_hash(p)]

\* the store paths of the closure being pushed
Pushed == ClosureOfRoots[paths]

HashOf(p) == HashOfPath[p]

InBatch == pc \in {"compressing", "uploading", "narinfos"}

\* C1: a transaction the service has seen completed has had every object it
\* reported pending transferred successfully, in every state of every run,
\* so also in the state where a run failed or was killed.
C1_CompleteOnlyAfterTransfers ==
    \A tx \in Txs : tx.completed > 0 => tx.pending \subseteq transferred

\* a killed run that completed one transaction with pending objects and had
\* not yet completed another
C1_Witness ==
    /\ pc = "crashed"
    /\ \E tx \in Txs : tx.completed > 0 /\ tx.pending # {}
    /\ \E tx \in Txs : tx.completed = 0

\* C2: when the PUT of a path's narinfo has gone out and that path's archive
\* was reported pending too, the archive has been transferred and the
\* narinfo carries the digest and size computed for it.
C2_NarBeforeNarinfo ==
    \A p \in Pushed :
        LET ni == narinfo_key_of(HashOf(p))
            nar == nar_key_of(HashOf(p))
        IN  (puts_sent[ni] > 0 /\ nar \in PendingKeys) =>
                /\ nar \in transferred
                /\ Field(sent_bodies[ni].body, "FileHash") = StagedHash(p)
                /\ Field(sent_bodies[ni].body, "FileSize") = StagedSize(p)

\* two narinfo PUTs in flight under a bound of 2, a third one waiting, the
\* archives of all three having been pending
C2_Witness ==
    /\ pc = "narinfos"
    /\ max_concurrent_uploads = 2
    /\ Cardinality(in_flight) = 2
    /\ started < Len(tasks)
    /\ \A p \in Pushed : nar_key_of(HashOf(p)) \in PendingKeys

\* C3 as claimed: every narinfo whose PUT went out carries the size and the
\* digest the pipeline computed for the archive of its path.
C3_NarinfoCarriesStagedDigest ==
    \A p \in Pushed :
        LET ni == narinfo_key_of(HashOf(p))
        IN  puts_sent[ni] > 0 =>
                /\ Field(sent_bodies[ni].body, "FileHash") = StagedHash(p)
                /\ Field(sent_bodies[ni].body, "FileSize") = StagedSize(p)

\* C4: once a PUT has been answered with a failure, push never reaches the
\* completion loop, never returns Ok, and no transaction is completed.
C4_OneFailureFailsPush ==
    puts_failed # {} =>
        /\ pc \notin {"completing", "done"}
        /\ \A tx \in Txs : tx.completed = 0

\* push returned Err after exactly one PUT failed while five succeeded
C4_Witness ==
    /\ pc = "failed"
    /\ Cardinality(puts_failed) = 1
    /\ Cardinality(transferred) = 5
    /\ puts_failed \cap transferred = {}

\* C5: in each batch the number of futures in flight is at most
\* max_concurrent_uploads.
C5_ConcurrencyBound ==
    InBatch => Cardinality(in_flight) <= max_concurrent_uploads

\* the archive transfer batch at its bound of 2 with a third task waiting
C5_Witness ==
    /\ pc = "uploading"
    /\ max_concurrent_uploads = 2
    /\ Cardinality(in_flight) = 2
    /\ started < Len(tasks)

\* C6: a batch hands an error to its caller only when every future of the
\* batch has been pulled and has produced its outcome.
C6_FailureAfterAllOutcomes ==
    [][(pc \in {"uploading", "narinfos"} /\ pc' = "failed") =>
            /\ started = Len(tasks)
            /\ in_flight = {}
            /\ Len(results) = Len(tasks)]_vars

\* a transfer failed first and a sibling of the same batch succeeded after it
C6_Witness ==
    /\ pc = "uploading"
    /\ Len(results) >= 2
    /\ ~results[1].ok /\ results[1].error = "upload"
    /\ results[2].ok
    /\ in_flight # {}

\* C7: a PUT goes out only for a key some negotiation reported pending and
\* only after every closure of the run has been negotiated; a run whose
\* negotiation failed has sent no PUT.
C7_NegotiateBeforeTransfer ==
    /\ \A k \in AllKeys : puts_sent[k] > 0 =>
            /\ k \in PendingKeys
            /\ Len(transactions) = Cardinality(Pushed)
    /\ error = "negotiate" => \A k \in AllKeys : puts_sent[k] = 0

\* a negotiation failed after an earlier one had reported pending objects
C7_Witness ==
    /\ pc = "failed"
    /\ error = "negotiate"
    /\ \E tx \in Txs : tx.pending # {}

\* C8: no transaction is completed twice; in the completion loop the ids
\* still to complete are exactly the transactions not yet completed; push
\* returns Ok only when every closure of the run has a transaction and each
\* of them is completed once.
C8_EveryTransactionCompletedOnce ==
    /\ \A tx \in Txs : tx.completed <= 1
    /\ pc = "completing" =>
            \A tx \in Txs : (tx.completed = 0) <=> (tx.id \in Range(pending_ids))
    /\ pc = "done" =>
            /\ Len(transactions) = Cardinality(Pushed)
            /\ \A tx \in Txs : tx.completed = 1

\* push returned Ok having completed a transaction without pending objects
\* and one with pending objects
C8_Witness ==
    /\ pc = "done"
    /\ \E tx \in Txs : tx.pending = {} /\ tx.completed = 1
    /\ \E tx \in Txs : tx.pending # {} /\ tx.completed = 1

\* C9 as claimed: every closure offers exactly a narinfo object whose refs
\* contain the narinfo key of every reference and the own archive key, and
\* an archive object without refs.
C9_OfferedObjects ==
    \A i \in 1..Len(closures) :
        LET objs == closures[i].objects
            p == CHOOSE q \in DOMAIN path_infos :
                    narinfo_key_of(HashOf(q)) = closures[i].closure
        IN  /\ Len(objs) = 2
            /\ objs[1].key = narinfo_key_of(HashOf(p))
            /\ nar_key_of(HashOf(p)) \in Range(objs[1].refs)
            /\ \A r \in Range(path_infos[p].references) :
                    narinfo_key_of(HashOf(r)) \in Range(objs[1].refs)
            /\ objs[2].key = nar_key_of(HashOf(p))
            /\ objs[2].refs = <<>>

\* C10: every key is offered in at most one negotiation of a run and is the
\* target of at most one PUT.
C10_KeyOfferedAndTransferredOnce ==
    \A k \in AllKeys :
        /\ Cardinality({i \in 1..Len(transactions) :
                \E j \in 1..Len(transactions[i].objects) :
                    transactions[i].objects[j].key = k}) <= 1
        /\ puts_sent[k] <= 1

\* two roots sharing a dependency: three negotiations, the dependency's
\* objects transferred, each by one PUT
C10_Witness ==
    /\ paths = {StorePathA, StorePathC}
    /\ Len(transactions) = 3
    /\ nar_key_of(HashOf(StorePathB)) \in transferred
    /\ narinfo_key_of(HashOf(StorePathB)) \in transferred
    /\ puts_sent[nar_key_of(HashOf(StorePathB))] = 1
    /\ puts_sent[narinfo_key_of(HashOf(StorePathB))] = 1

(***************************************************************************)
(* Properties of successive runs (SpecRuns)                                *)
(***************************************************************************)
\* C11: in a run that follows an earlier run over the same roots, successful
\* or aborted, no object the earlier runs transferred is reported pending or
\* sent again; after an earlier run that returned Ok no object at all is
\* sent, and when the later run returns Ok it has negotiated a transaction
\* for every path of the closure and completed each of them once.
C11_RerunIdempotent ==
    earlier.runs >= 1 =>
        /\ \A k \in earlier.transferred : k \notin PendingKeys /\ puts_sent[k] = 0
        /\ earlier.succeeded =>
              /\ PendingKeys = {}
              /\ \A k \in AllKeys : puts_sent[k] = 0
              /\ pc = "done" =>
                    /\ Len(transactions) = Cardinality(Pushed)
                    /\ \A tx \in Txs : tx.completed = 1

\* a second run returned Ok after a first run that had transferred objects
\* and returned Ok
C11_Witness ==
    /\ earlier.runs = 1
    /\ earlier.succeeded
    /\ earlier.transferred # {}
    /\ pc = "done"
    /\ Len(transactions) = 2

\* a second run negotiated after a first run that failed having transferred
\* some of its objects, and finds the rest pending
C11_WitnessAborted ==
    /\ earlier.runs = 1
    /\ ~earlier.succeeded
    /\ earlier.transferred # {}
    /\ PendingKeys # {}
    /\ pc = "done"

(***************************************************************************)
(* Properties of one run (Spec), continued                                 *)
(***************************************************************************)
\* compress_nar_to_file has returned an error for some archive of the batch
CompressFailed ==
    \/ pc = "compressing" /\ \E i \in 1..Len(results) : ~results[i].ok
    \/ pc = "uploading" /\ \E i \in 1..Len(tasks) : ~tasks[i].ok

\* C12 as claimed: once the metadata provider or the archiving of a path has
\* failed, the push is over: no PUT is sent and no transaction is completed.
\* The archive PUTs of a run are all sent after its compression batch, so a
\* PUT seen while a compression error is among the batch's outcomes was
\* started after that error.
C12_AbortsImmediately ==
    /\ error = "metadata" =>
            /\ api_requests = <<>>
            /\ \A k \in AllKeys : puts_sent[k] = 0
    /\ CompressFailed =>
            /\ \A k \in AllKeys : puts_sent[k] = 0
            /\ \A tx \in Txs : tx.completed = 0

\* C13: within one run no request is sent twice: at most one PUT per key,
\* and no two API requests alike (a negotiate request per closure, a
\* complete request per transaction id); an API request answered non-2xx is
\* the last request of the run, which has returned that error; after a PUT
\* answered non-2xx the run neither enters the completion loop nor returns
\* Ok.
C13_NoRetry ==
    /\ \A k \in AllKeys : puts_sent[k] <= 1
    /\ \A i, j \in 1..Len(api_requests) :
            api_requests[i].request = api_requests[j].request => i = j
    /\ \A i \in 1..Len(api_requests) :
            ~api_requests[i].success =>
                /\ i = Len(api_requests)
                /\ pc = "failed"
                /\ error = IF api_requests[i].request.url = <<"api/pending_closures">>
                           THEN "negotiate" ELSE "complete"
    /\ puts_failed # {} => pc \notin {"completing", "done"}

\* a run failed at its second complete request, after two negotiations and
\* one completion answered 2xx
C13_Witness ==
    /\ pc = "failed"
    /\ error = "complete"
    /\ Len(api_requests) = 4
    /\ api_requests[3].success
    /\ ~api_requests[4].success

\* the negotiate requests the service has received in this run
NegotiateRequests ==
    {i \in 1..Len(api_requests) :
        api_requests[i].request.url = <<"api/pending_closures">>}

\* C17: every negotiate request of a run names the narinfo key of one path
\* of the closure and offers exactly two objects, that path's narinfo and
\* that path's archive; no two requests name the same path; and once the
\* negotiation loop has ended without error there has been exactly one
\* request per path of the closure.
C17_OneNegotiationPerPath ==
    /\ \A i \in NegotiateRequests :
          LET json == api_requests[i].request.json
          IN  \E p \in Pushed :
                /\ json.closure = narinfo_key_of(HashOf(p))
                /\ Len(json.objects) = 2
                /\ {json.objects[n].key : n \in 1..2} =
                       {narinfo_key_of(HashOf(p)), nar_key_of(HashOf(p))}
    /\ \A i, j \in NegotiateRequests :
          api_requests[i].request.json.closure = api_requests[j].request.json.closure
              => i = j
    /\ pc \in {"compressing", "uploading", "narinfos", "completing", "done"} =>
          /\ Cardinality(NegotiateRequests) = Cardinality(Pushed)
          /\ Len(transactions) = Cardinality(Pushed)

\* the push of root A, which depends on B, returned Ok after two negotiations
C17_Witness ==
    /\ paths = {StorePathA}
    /\ pc = "done"
    /\ Cardinality(NegotiateRequests) = 2

(***************************************************************************)
(* NarInfo::to_string, narinfo.rs:62-106: the text as a sequence of lines  *)
(***************************************************************************)
\* str::split('/').next_back(): the tokens after the last '/'
split_next_back(s) ==
    LET slashes == {i \in 1..Len(s) : s[i] = "/nix/store/" \/ s[i] = "/"}
        last == IF slashes = {} THEN 0
                ELSE CHOOSE i \in slashes : \A j \in slashes : j <= i
    IN  SubSeq(s, last + 1, Len(s))

\* `references` is a BTreeSet: iterated in ascending order
to_string(self) ==
    << Line("StorePath", self.store_path),
       Line("URL", self.url),
       Line("Compression", self.compression),
       Line("FileHash", self.file_hash),
       Line("FileSize", self.file_size),
       Line("NarHash", self.nar_hash),
       Line("NarSize", self.nar_size) >>
    \o (IF self.references # <<>>
        THEN << Line("References", [i \in 1..Len(self.references) |->
                                       split_next_back(self.references[i])]) >>
        ELSE <<>>)
    \o (IF self.deriver # None
        THEN << Line("Deriver", split_next_back(self.deriver)) >> ELSE <<>>)
    \o (IF self.system # None THEN << Line("System", self.system) >> ELSE <<>>)
    \o (IF self.sig # None THEN << Line("Sig", self.sig) >> ELSE <<>>)
    \o (IF self.ca # None THEN << Line("CA", self.ca) >> ELSE <<>>)

\* NarInfo values: no reference, one, two; with and without a deriver
NarInfos ==
    {[store_path |-> StorePathA,
      url |-> <<"nar/", "aaa", "-", "app", ".nar", ".xz">>,
      compression |-> <<"xz">>,
      file_hash |-> <<"sha256:", "f">>, file_size |-> 40,
      nar_hash |-> <<"sha256:", "n">>, nar_size |-> 100,
      references |-> refs, deriver |-> deriver,
      system |-> None, sig |-> None, ca |-> None] :
        refs \in {<<>>, <<StorePathB>>, <<StorePathB, StorePathC>>},
        deriver \in {None, <<"/nix/store/", "ddd", "-", "app.drv">>}}

\* the lines of a rendered narinfo that are References lines
ReferencesLines(narinfo) ==
    {i \in 1..Len(narinfo) : narinfo[i].key = "References"}

\* the claimed rendering of the reference list `refs`
ReferencesAsClaimed(narinfo, refs) ==
    IF refs = <<>>
    THEN ReferencesLines(narinfo) = {}
    ELSE /\ Cardinality(ReferencesLines(narinfo)) = 1
         /\ Field(narinfo, "References") = [i \in 1..Len(refs) |-> Tail(refs[i])]

\* C18 as claimed: a rendered narinfo has one References line with the
\* basenames of the direct dependencies when there are any, and no
\* References line when there are none; for every narinfo push uploads
\* (create_narinfo) and for NarInfo::to_string.
C18_ReferencesLine ==
    /\ \A p \in StorePaths :
          LET k == narinfo_key_of(HashOf(p))
          IN  k \in DOMAIN sent_bodies =>
                 ReferencesAsClaimed(sent_bodies[k].body, NixStore[p].references)
    /\ \A self \in NarInfos : ReferencesAsClaimed(to_string(self), self.references)

\* the part of C18 that is about NarInfo::to_string alone
C18_ToStringReferencesLine ==
    \A self \in NarInfos : ReferencesAsClaimed(to_string(self), self.references)

\* the path records of the store, and the requests a PUT for an object of
\* path p can be, written without the token: the archive as staged; the
\* narinfo with the staged size and digest or with the default (0, "")
PathInfoOf == get_path_info_recursive(StorePaths)

TokenFreePuts(p) ==
    LET h == HashOf(p)
        staged == compress_nar_to_file(p)
    IN  {nar_put_request(staged, nar_key_of(h))}
        \cup {narinfo_put_request(create_narinfo(PathInfoOf[p], h \o <<".nar.zst">>,
                                                 c.size, c.file_hash)) :
                c \in {[size |-> StagedSize(p), file_hash |-> StagedHash(p)],
                       [size |-> 0, file_hash |-> EmptyString]}}

\* C19: every negotiate and complete request carries the header
\* Authorization: Bearer <token> of the run; no PUT carries an Authorization
\* header, and every PUT is one of the requests determined by the object
\* alone, whatever the token.
C19_TokenOnlyOnApiRequests ==
    /\ \A i \in 1..Len(api_requests) :
          /\ "Authorization" \in api_requests[i].request.headers
          /\ api_requests[i].request.authorization = <<"Bearer ">> \o auth_token
    /\ \A p \in StorePaths :
          \A k \in {narinfo_key_of(HashOf(p)), nar_key_of(HashOf(p))} :
              k \in DOMAIN sent_bodies =>
                  /\ "Authorization" \notin sent_bodies[k].headers
                  /\ sent_bodies[k] \in TokenFreePuts(p)

\* a run with the second token returned Ok having sent an archive PUT, a
\* narinfo PUT, negotiate and complete requests
C19_Witness ==
    /\ pc = "done"
    /\ auth_token = <<"token2">>
    /\ \E k \in DOMAIN sent_bodies : is_nar_key(k)
    /\ \E k \in DOMAIN sent_bodies : is_narinfo_key(k)
    /\ Len(api_requests) >= 2

(***************************************************************************)
(* The staging pipeline: compress_nar_to_file (upload.rs:206-270) and the  *)
(* upload task that consumes its result (main.rs:282-306), for the tasks   *)
(* of one upload_nars call, which share one UploadTempDir.                 *)
(***************************************************************************)
\* tokio::io::duplex(65536): the capacity of the pipe in bytes
DuplexCapacity == 65536

\* reads and writes move whole blocks of this many bytes
PipeBlock == DuplexCapacity \div 2

\* the longest archive, in blocks
MaxNarBlocks == 3

\* the tasks followed: two archives staged by one upload_nars call
StageTasks == {1, 2}
NarLens == {n * PipeBlock : n \in 1..MaxNarBlocks}

\* a task whose compression future has not been polled yet; nar_len is the
\* length of the archive dump_path would write for its store path;
\* compressed_file is the set of the CompressedFile values the task holds
NewStage(len) ==
    [pc |-> "new", temp_path |-> None, nar_len |-> len, nar_task |-> "unspawned",
     produced |-> 0, pipe |-> 0, reader |-> FALSE, consumed |-> 0,
     size_tracker |-> 0, hasher |-> <<>>, file |-> <<>>, put |-> <<>>,
     compressed_file |-> {}, result |-> None]

\* upload_nars has created the UploadTempDir (main.rs:234)
InitStage ==
    /\ PushIdle
    /\ NarIdle
    /\ AddressingIdle
    /\ file_counter = 0
    /\ temp_dir = TRUE
    /\ temp_files = {}
    /\ stage \in [StageTasks -> {NewStage(len) : len \in NarLens}]

\* faulty variant: every call returns the same file name
allocate_temp_path_Fixed(counter) == <<"tmp/", 0>>

\* UploadTempDir::allocate_temp_path (upload.rs:52-56): fetch_add, then the
\* counter's old value as the file name
allocate_temp_path(counter) == <<"tmp/", counter>>

Min(a, b) == IF a < b THEN a ELSE b

\* upload.rs:214-224: the path is allocated, the pipe made, the producer spawned
StageAllocate(t) ==
    /\ stage[t].pc = "new"
    /\ file_counter' = file_counter + 1
    /\ stage' = [stage EXCEPT ![t].pc = "create",
                              ![t].temp_path = allocate_temp_path(file_counter),
                              ![t].nar_task = "running",
                              ![t].reader = TRUE]
    /\ UNCHANGED <<temp_dir, temp_files>>
    /\ UNCHANGED <<push_vars, nar_vars, addressing_vars>>

\* compress_nar_to_file returns Err: its locals, the read end among them, are
\* dropped; no CompressedFile exists, so nothing removes the file
ReturnErr(t, e) ==
    stage' = [stage EXCEPT ![t].pc = "compressed", ![t].reader = FALSE,
                           ![t].result = Err(e)]

\* upload.rs:238-240: File::create(&temp_path)
StageCreateFile(t) ==
    /\ stage[t].pc = "create"
    /\ \/ /\ temp_files' = temp_files \cup {stage[t].temp_path}
          /\ stage' = [stage EXCEPT ![t].pc = "copy"]
       \/ /\ ReturnErr(t, "create")
          /\ UNCHANGED temp_files
    /\ UNCHANGED <<file_counter, temp_dir>>
    /\ UNCHANGED <<push_vars, nar_vars, addressing_vars>>

\* faulty variant: a write puts its whole chunk into the pipe at once
duplex_write_Unbounded(buffered, remaining) == {remaining}

\* DuplexStream::poll_write: the byte counts a write of `remaining` bytes
\* may be accepted with, none when the pipe is full
duplex_write(buffered, remaining) ==
    {n * PipeBlock : n \in 1..(Min(remaining, DuplexCapacity - buffered) \div PipeBlock)}

\* DuplexStream::poll_read: the byte counts a read may return, none when
\* the pipe is empty
duplex_read(buffered) == {n * PipeBlock : n \in 1..(buffered \div PipeBlock)}

\* the producer task (upload.rs:221-224): nar::dump_path writes the next
\* bytes of the archive into the pipe
ProducerWrite(t) ==
    /\ stage[t].nar_task = "running"
    /\ stage[t].reader
    /\ \E n \in duplex_write(stage[t].pipe, stage[t].nar_len - stage[t].produced) :
          stage' = [stage EXCEPT ![t].produced = @ + n, ![t].pipe = @ + n]
    /\ UNCHANGED <<file_counter, temp_dir, temp_files>>
    /\ UNCHANGED <<push_vars, nar_vars, addressing_vars>>

\* a write into the pipe whose read end is gone fails: dump_path returns Err
ProducerBrokenPipe(t) ==
    /\ stage[t].nar_task = "running"
    /\ ~stage[t].reader
    /\ stage[t].produced < stage[t].nar_len
    /\ stage' = [stage EXCEPT ![t].nar_task = "err"]
    /\ UNCHANGED <<file_counter, temp_dir, temp_files>>
    /\ UNCHANGED <<push_vars, nar_vars, addressing_vars>>

\* dump_path returns Err (filesystem or integrity error) or the task
\* panics, at any point; the write end is dropped
ProducerFail(t) ==
    /\ stage[t].nar_task = "running"
    /\ stage' = [stage EXCEPT ![t].nar_task = "err"]
    /\ UNCHANGED <<file_counter, temp_dir, temp_files>>
    /\ UNCHANGED <<push_vars, nar_vars, addressing_vars>>

\* dump_path has written the whole archive and returns Ok; the write end
\* is dropped
ProducerFinish(t) ==
    /\ stage[t].nar_task = "running"
    /\ stage[t].produced = stage[t].nar_len
    /\ stage' = [stage EXCEPT ![t].nar_task = "ok"]
    /\ UNCHANGED <<file_counter, temp_dir, temp_files>>
    /\ UNCHANGED <<push_vars, nar_vars, addressing_vars>>

\* the bytes the ZstdEncoder yields for n bytes of archive read at offset
\* `consumed` (upload.rs:227-228): one compressed block, half as long, for
\* every block of the archive, named by its position in the archive
zstd_encode(consumed, n) ==
    [i \in 1..(n \div PipeBlock) |-> consumed \div PipeBlock + i]

\* the number of bytes of a sequence of compressed blocks
chunk_len(blocks) == Len(blocks) * (PipeBlock \div 2)

\* faulty variant: the size tracker counts chunks, not their bytes
hashing_stream_ChunksCounted(st, chunk) ==
    [st EXCEPT !.hasher = @ \o chunk, !.size_tracker = @ + 1]

\* upload.rs:359-370, the map_ok of create_hashing_stream: a chunk on its
\* way to the file updates the hasher and adds its length to the size
\* tracker
hashing_stream(st, chunk) ==
    [st EXCEPT !.hasher = @ \o chunk, !.size_tracker = @ + chunk_len(chunk)]

\* upload.rs:242-244: copy writes the chunk it read from the stream to the
\* temp file
write_all(st, chunk) == [st EXCEPT !.file = @ \o chunk]

\* upload.rs:286-301: the body of the PUT streams the file opened at the
\* CompressedFile's path, and Content-Length is the CompressedFile's size
stage_put_request(compressed_file, file) ==
    [content_length |-> compressed_file.size, body |-> file]

\* upload.rs:242-244, tokio::io::copy: bytes read from the pipe are
\* compressed, hashed, counted and written to the temp file, or the write
\* to the temp file fails
ConsumerCopy(t) ==
    /\ stage[t].pc = "copy"
    /\ \/ \E n \in duplex_read(stage[t].pipe) :
             LET chunk == zstd_encode(stage[t].consumed, n)
                 read == [stage[t] EXCEPT !.pipe = @ - n, !.consumed = @ + n]
                 hashed == hashing_stream(read, chunk)
             IN  \/ stage' = [stage EXCEPT ![t] = write_all(hashed, chunk)]
                 \/ stage' = [stage EXCEPT ![t] = [hashed EXCEPT
                                                      !.pc = "compressed",
                                                      !.reader = FALSE,
                                                      !.result = Err("copy")]]
       \/ ReturnErr(t, "copy")
    /\ UNCHANGED <<file_counter, temp_dir, temp_files>>
    /\ UNCHANGED <<push_vars, nar_vars, addressing_vars>>

\* faulty variant: the read end reports end of stream only after the
\* producer returned Ok
ConsumerEof_OnlyAfterOk(t) ==
    /\ stage[t].pc = "copy"
    /\ stage[t].pipe = 0
    /\ stage[t].nar_task = "ok"
    /\ stage' = [stage EXCEPT ![t].pc = "join"]
    /\ UNCHANGED <<file_counter, temp_dir, temp_files>>
    /\ UNCHANGED <<push_vars, nar_vars, addressing_vars>>

\* the pipe is empty and its write end dropped: end of stream, copy returns Ok
ConsumerEof(t) ==
    /\ stage[t].pc = "copy"
    /\ stage[t].pipe = 0
    /\ stage[t].nar_task \in {"ok", "err"}
    /\ stage' = [stage EXCEPT ![t].pc = "join"]
    /\ UNCHANGED <<file_counter, temp_dir, temp_files>>
    /\ UNCHANGED <<push_vars, nar_vars, addressing_vars>>

\* upload.rs:250-269: the CompressedFile, its size and digest those of the
\* bytes that went through the hashing stream
CompressedFileOf(st) ==
    [path |-> st.temp_path, size |-> st.size_tracker,
     hash |-> <<"sha256:", st.hasher>>]

\* faulty variant: the producer's result is not looked at
StageJoin_Unchecked(t) ==
    /\ stage[t].pc = "join"
    /\ stage[t].nar_task \in {"ok", "err"}
    /\ stage' = [stage EXCEPT ![t].pc = "compressed", ![t].reader = FALSE,
                              ![t].compressed_file = {CompressedFileOf(stage[t])},
                              ![t].result = Ok("compressed")]
    /\ UNCHANGED <<file_counter, temp_dir, temp_files>>
    /\ UNCHANGED <<push_vars, nar_vars, addressing_vars>>

\* upload.rs:247-269: nar_task.await??, then Ok(CompressedFile)
StageJoin(t) ==
    /\ stage[t].pc = "join"
    /\ stage[t].nar_task \in {"ok", "err"}
    /\ IF stage[t].nar_task = "ok"
       THEN stage' = [stage EXCEPT ![t].pc = "compressed", ![t].reader = FALSE,
                                   ![t].compressed_file = {CompressedFileOf(stage[t])},
                                   ![t].result = Ok("compressed")]
       ELSE ReturnErr(t, "producer")
    /\ UNCHANGED <<file_counter, temp_dir, temp_files>>
    /\ UNCHANGED <<push_vars, nar_vars, addressing_vars>>

\* main.rs:277-279: collect() has returned every compression result
CompressionsCollected ==
    \A t \in StageTasks : stage[t].pc \notin {"new", "create", "copy", "join"}

\* CompressedFile::drop (upload.rs:67-74): the file is removed if it exists
drop_compressed_file(files, compressed_file) == files \ {compressed_file.path}

\* faulty variant: an upload future is polled as soon as its own compression
\* has returned
StageUploadStart_Pipelined(t) ==
    /\ stage[t].pc = "compressed"
    /\ IF stage[t].result.ok
       THEN \E c \in stage[t].compressed_file :
               stage' = [stage EXCEPT ![t].pc = "put",
                                      ![t].put = <<stage_put_request(c, stage[t].file)>>]
       ELSE stage' = [stage EXCEPT ![t].pc = "finished"]
    /\ UNCHANGED <<file_counter, temp_dir, temp_files>>
    /\ UNCHANGED <<push_vars, nar_vars, addressing_vars>>

\* main.rs:286-291: the upload task is polled first; `result?` ends it at
\* once for a failed compression, otherwise the file is opened and the PUT
\* goes out
StageUploadStart(t) ==
    /\ stage[t].pc = "compressed"
    /\ CompressionsCollected
    /\ IF stage[t].result.ok
       THEN \E c \in stage[t].compressed_file :
               stage' = [stage EXCEPT ![t].pc = "put",
                                      ![t].put = <<stage_put_request(c, stage[t].file)>>]
       ELSE stage' = [stage EXCEPT ![t].pc = "finished"]
    /\ UNCHANGED <<file_counter, temp_dir, temp_files>>
    /\ UNCHANGED <<push_vars, nar_vars, addressing_vars>>

\* main.rs:291-304: the PUT is answered; the task returns and its
\* CompressedFile is dropped, whatever the answer
StageUploadFinish(t) ==
    /\ stage[t].pc = "put"
    /\ \E success \in BOOLEAN :
          stage' = [stage EXCEPT ![t].pc = "finished",
                                 ![t].compressed_file = {},
                                 ![t].result = IF success THEN Ok("uploaded")
                                               ELSE Err("upload")]
    /\ \E c \in stage[t].compressed_file :
          temp_files' = drop_compressed_file(temp_files, c)
    /\ UNCHANGED <<file_counter, temp_dir>>
    /\ UNCHANGED <<push_vars, nar_vars, addressing_vars>>

\* main.rs:314-325: the upload batch is collected and upload_nars returns;
\* its UploadTempDir is dropped, and the directory removed with all it holds
StageReturn ==
    /\ temp_dir
    /\ \A t \in StageTasks : stage[t].pc = "finished"
    /\ temp_dir' = FALSE
    /\ temp_files' = {}
    /\ UNCHANGED <<file_counter, stage>>
    /\ UNCHANGED <<push_vars, nar_vars, addressing_vars>>

NextStage ==
    \/ \E t \in StageTasks : StageAllocate(t)
    \/ \E t \in StageTasks : StageCreateFile(t)
    \/ \E t \in StageTasks : ProducerWrite(t)
    \/ \E t \in StageTasks : ProducerBrokenPipe(t)
    \/ \E t \in StageTasks : ProducerFail(t)
    \/ \E t \in StageTasks : ProducerFinish(t)
    \/ \E t \in StageTasks : ConsumerCopy(t)
    \/ \E t \in StageTasks : ConsumerEof(t)
    \/ \E t \in StageTasks : StageJoin(t)
    \/ \E t \in StageTasks : StageUploadStart(t)
    \/ \E t \in StageTasks : StageUploadFinish(t)
    \/ StageReturn

SpecStage == InitStage /\ [][NextStage]_vars

(***************************************************************************)
(* Properties of the staging pipeline (SpecStage)                          *)
(***************************************************************************)
\* the task that created the temp file of t has finished: the compression
\* returned an error, or the upload task that took the artifact has ended
StagingOver(t) ==
    \/ stage[t].pc = "finished"
    \/ stage[t].pc = "compressed" /\ ~stage[t].result.ok

\* C14 as claimed: once the task that created a temp file has finished,
\* after a successful or failed transfer or after an early failure inside
\* compress_nar_to_file, that file no longer exists.
C14_TempFileReleased ==
    \A t \in StageTasks : StagingOver(t) => stage[t].temp_path \notin temp_files

\* the part of C14 the code keeps: no temp file of a task is left once its
\* transfer has ended, and none at all once upload_nars has returned
C14_ReleasedAfterTransfer ==
    /\ \A t \in StageTasks :
          stage[t].pc = "finished" /\ stage[t].result \in {Ok("uploaded"), Err("upload")}
              => stage[t].temp_path \notin temp_files
    /\ ~temp_dir => temp_files = {}

\* C15: a task holds a CompressedFile only if its producer returned Ok
\* having written the whole archive and the whole archive went through the
\* consumer; a PUT is sent only for a task that holds one; so after a
\* producer failure, also one after the copy ended without error, nothing
\* is returned and nothing transferred.
C15_ArtifactOnlyFromCompleteArchive ==
    \A t \in StageTasks :
        /\ stage[t].compressed_file # {} =>
              /\ stage[t].nar_task = "ok"
              /\ stage[t].produced = stage[t].nar_len
              /\ stage[t].consumed = stage[t].nar_len
        /\ stage[t].pc = "put" => stage[t].compressed_file # {}
        /\ stage[t].pc = "compressed" /\ stage[t].result.ok =>
              stage[t].compressed_file # {}

\* the producer failed with the archive partly written, the copy ended
\* without error at end of stream, and compress_nar_to_file returned the
\* producer's error
C15_Witness ==
    \E t \in StageTasks :
        /\ stage[t].pc = "compressed"
        /\ stage[t].result = Err("producer")
        /\ stage[t].consumed > 0
        /\ stage[t].consumed < stage[t].nar_len
        /\ stage[t].temp_path \in temp_files

\* C16: in every step the bytes buffered in a task's pipe stay within
\* 0..65536; a step taken while the pipe is full adds nothing to what the
\* producer has written (it is blocked), and a step taken while the pipe is
\* empty adds nothing to what the consumer has read; for archives shorter
\* and longer than the capacity.
C16_PipeBounded ==
    [][\A t \in StageTasks :
          /\ stage'[t].pipe >= 0
          /\ stage'[t].pipe <= DuplexCapacity
          /\ stage[t].pipe = DuplexCapacity => stage'[t].produced = stage[t].produced
          /\ stage[t].pipe = 0 => stage'[t].consumed = stage[t].consumed]_vars

\* the pipe of a task is full while its producer has more of an archive
\* longer than the capacity to write and the consumer is copying
C16_Witness ==
    \E t \in StageTasks :
        /\ stage[t].pipe = DuplexCapacity
        /\ stage[t].nar_len > DuplexCapacity
        /\ stage[t].produced < stage[t].nar_len
        /\ stage[t].nar_task = "running"
        /\ stage[t].pc = "copy"

(***************************************************************************)
(* The archive codec, nar.rs:9-155. Bytes are numbers in 0..255, byte       *)
(* strings are sequences of them.                                          *)
(***************************************************************************)
\* "nix-archive-1"
NAR_VERSION_MAGIC_1 == <<110, 105, 120, 45, 97, 114, 99, 104, 105, 118, 101, 45, 49>>

\* "~nix~case~hack~"
CASE_HACK_SUFFIX == <<126, 110, 105, 120, 126, 99, 97, 115, 101, 126, 104, 97, 99, 107, 126>>

\* str::as_bytes of the string literals dump_path writes
as_bytes ==
    ("(" :> <<40>>) @@
    (")" :> <<41>>) @@
    ("type" :> <<116, 121, 112, 101>>) @@
    ("regular" :> <<114, 101, 103, 117, 108, 97, 114>>) @@
    ("executable" :> <<101, 120, 101, 99, 117, 116, 97, 98, 108, 101>>) @@
    ("" :> <<>>) @@
    ("contents" :> <<99, 111, 110, 116, 101, 110, 116, 115>>) @@
    ("directory" :> <<100, 105, 114, 101, 99, 116, 111, 114, 121>>) @@
    ("entry" :> <<101, 110, 116, 114, 121>>) @@
    ("name" :> <<110, 97, 109, 101>>) @@
    ("node" :> <<110, 111, 100, 101>>) @@
    ("symlink" :> <<115, 121, 109, 108, 105, 110, 107>>) @@
    ("target" :> <<116, 97, 114, 103, 101, 116>>)

\* the `count` low bytes of n, least significant first
RECURSIVE le_bytes(_, _)
le_bytes(n, count) ==
    IF count = 0 THEN <<>> ELSE <<n % 256>> \o le_bytes(n \div 256, count - 1)

\* u64::to_le_bytes
to_le_bytes(n) == le_bytes(n, 8)

\* vec![0; k]
Zeros(k) == [i \in 1..k |-> 0]

\* faulty variant: a length that is a multiple of 8 is padded with 8 bytes
padding_Full(len) == 8 - (len % 8)

\* nar.rs:45 and 107: the number of padding bytes after `len` bytes
padding(len) == (8 - (len % 8)) % 8

\* write_string, nar.rs:38-50: the bytes it writes
write_string(s) == to_le_bytes(Len(s)) \o s \o Zeros(padding(Len(s)))

\* write_str, nar.rs:52-54
write_str(s) == write_string(as_bytes[s])

\* faulty variant: the name is cut at the last occurrence of the suffix
strip_case_hack_suffix_Last(name, use_hack) ==
    LET n == Len(CASE_HACK_SUFFIX)
        found == {pos \in 0..(Len(name) - n) :
                     SubSeq(name, pos + 1, pos + n) = CASE_HACK_SUFFIX}
        last == CHOOSE pos \in found : \A q \in found : q <= pos
    IN  IF use_hack /\ found # {} THEN SubSeq(name, 1, last) ELSE name

\* strip_case_hack_suffix, nar.rs:19-36: the name up to the first
\* occurrence of the suffix, when the build uses the case hack
strip_case_hack_suffix(name, use_hack) ==
    LET n == Len(CASE_HACK_SUFFIX)
        found == {pos \in 0..(Len(name) - n) :
                     SubSeq(name, pos + 1, pos + n) = CASE_HACK_SUFFIX}
        first == CHOOSE pos \in found : \A q \in found : pos <= q
    IN  IF use_hack /\ found # {} THEN SubSeq(name, 1, first) ELSE name

\* Ord for OsString: byte-wise lexicographic
os_str_lt(a, b) ==
    \/ Len(a) < Len(b) /\ \A j \in 1..Len(a) : a[j] = b[j]
    \/ \E i \in 1..Min(Len(a), Len(b)) :
          a[i] < b[i] /\ \A j \in 1..(i - 1) : a[j] = b[j]

\* read_dir and the loop that collects the file names, nar.rs:114-121: the
\* names of the directory in the order the filesystem yields them, which is
\* the order they have in `enumeration`, an order of all names
read_dir(node, enumeration) ==
    SelectSeq(enumeration, LAMBDA name : name \in DOMAIN node.entries)

\* entries.sort(), nar.rs:123: the names of the vector in ascending order
sort(entries) ==
    CHOOSE f \in Orders(Range(entries)) :
        \A i, j \in 1..Len(entries) : i < j => os_str_lt(f[i], f[j])

\* what a dump has done: the bytes written, and Ok or the error returned
Written(bytes) == [ok |-> TRUE, written |-> bytes, error |-> "none"]
Bail(bytes, e) == [ok |-> FALSE, written |-> bytes, error |-> e]

\* b after a: `?` returns a's error without running b
AndThen(a, b) ==
    IF a.ok THEN [b EXCEPT !.written = a.written \o b.written] ELSE a

\* faulty variant: the number of bytes copied is not compared
check_file_size_Unchecked(bytes_copied, file_size) == Written(<<>>)

\* nar.rs:97-104: the bytes copied must number file_size
check_file_size(bytes_copied, file_size) ==
    IF bytes_copied # file_size THEN Bail(<<>>, "size mismatch") ELSE Written(<<>>)

\* faulty variant: an object of another type is skipped
unsupported_file_type_Skipped == Written(<<>>)

\* nar.rs:150-152: neither a file, a directory nor a symlink
unsupported_file_type == Bail(<<>>, "unsupported file type")

\* dump_path_inner, nar.rs:64-155, for a node of the file tree:
\*   [type |-> "regular", executable, len, contents]  len is metadata.len(),
\*       contents the bytes the file yields when it is streamed
\*   [type |-> "directory", entries]  a function from names to nodes
\*   [type |-> "symlink", target]
\*   [type |-> "other"]  a fifo, socket or device
RECURSIVE dump_path_inner(_, _, _)
RECURSIVE dump_entries(_, _, _, _)

\* nar.rs:125-141: the loop over the sorted names
dump_entries(node, entries, enumeration, use_hack) ==
    IF entries = <<>> THEN Written(<<>>)
    ELSE LET entry == Head(entries)
             nar_name == strip_case_hack_suffix(entry, use_hack)
         IN  AndThen(Written(write_str("entry") \o write_str("(")
                             \o write_str("name") \o write_string(nar_name)
                             \o write_str("node") \o write_str("(")),
             AndThen(dump_path_inner(node.entries[entry], enumeration, use_hack),
             AndThen(Written(write_str(")") \o write_str(")")),
                     dump_entries(node, Tail(entries), enumeration, use_hack))))

dump_path_inner(node, enumeration, use_hack) ==
    AndThen(Written(write_str("type")),
        IF node.type = "regular"
        THEN AndThen(Written(write_str("regular")
                             \o (IF node.executable
                                 THEN write_str("executable") \o write_str("")
                                 ELSE <<>>)
                             \o write_str("contents")
                             \o to_le_bytes(node.len)
                             \o node.contents),
             AndThen(check_file_size(Len(node.contents), node.len),
                     Written(Zeros(padding(node.len)))))
        ELSE IF node.type = "directory"
        THEN AndThen(Written(write_str("directory")),
                     dump_entries(node, sort(read_dir(node, enumeration)),
                                  enumeration, use_hack))
        ELSE IF node.type = "symlink"
        THEN Written(write_str("symlink") \o write_str("target")
                     \o write_string(node.target))
        ELSE unsupported_file_type)

\* faulty variant: the closing parenthesis of the archive is not written
dump_path_Unclosed(node, enumeration, use_hack) ==
    AndThen(Written(write_string(NAR_VERSION_MAGIC_1) \o write_str("(")),
            dump_path_inner(node, enumeration, use_hack))

\* dump_path, nar.rs:56-62
dump_path(node, enumeration, use_hack) ==
    AndThen(Written(write_string(NAR_VERSION_MAGIC_1) \o write_str("(")),
    AndThen(dump_path_inner(node, enumeration, use_hack),
            Written(write_str(")"))))

(***************************************************************************)
(* The codec on its own: dump_path applied to a file tree                  *)
(***************************************************************************)
\* the longest file, in bytes
MaxFileLen == 9

\* n bytes of file contents
FileBytes(n) == [i \in 1..n |-> 48 + (i % 10)]

\* regular files, also ones whose length changed between the metadata call
\* and the streaming of the contents
RegularFiles ==
    UNION {{[type |-> "regular", executable |-> x, len |-> l,
             contents |-> FileBytes(n)] :
               x \in BOOLEAN, l \in {m \in 0..MaxFileLen : m - n \in {-1, 0, 1}}} :
           n \in 0..MaxFileLen}

\* "b" and "/nix/sto"
Symlinks == {[type |-> "symlink", target |-> target] : target \in {<<98>>, <<47, 110, 105, 120, 47, 115, 116, 111>>}}

OtherNodes == {[type |-> "other"]}

\* "a~nix~case~hack~1" and "f~nix~case~hack~b~nix~case~hack~2"
CaseHackName == <<97>> \o CASE_HACK_SUFFIX \o <<49>>
TwiceCaseHackName ==
    <<102>> \o CASE_HACK_SUFFIX \o <<98>> \o CASE_HACK_SUFFIX \o <<50>>

\* "A", "a-b", "b" and the two names with the suffix
EntryNames == {<<65>>, <<97, 45, 98>>, CaseHackName, <<98>>, TwiceCaseHackName}

\* the orders in which the filesystem may yield the names: by bytes, the
\* reverse, and a mixed one
Enumerations ==
    {<<<<65>>, <<97, 45, 98>>, CaseHackName, <<98>>, TwiceCaseHackName>>,
     <<TwiceCaseHackName, <<98>>, CaseHackName, <<97, 45, 98>>, <<65>>>>,
     <<CaseHackName, <<98>>, TwiceCaseHackName, <<65>>, <<97, 45, 98>>>>}

\* the number of times the same tree is archived
MaxDumps == 2

\* the nodes a directory of the tree may hold: files, one of them shorter
\* than its metadata said, a symlink, a fifo, and directories
ChildNodes ==
    {[type |-> "regular", executable |-> FALSE, len |-> 0, contents |-> <<>>],
     [type |-> "regular", executable |-> TRUE, len |-> 3, contents |-> FileBytes(3)],
     [type |-> "regular", executable |-> FALSE, len |-> 2, contents |-> FileBytes(1)],
     [type |-> "symlink", target |-> <<98>>],
     [type |-> "other"],
     [type |-> "directory", entries |-> EmptyMap],
     [type |-> "directory",
      entries |-> (<<98>> :> [type |-> "regular", executable |-> FALSE,
                            len |-> 8, contents |-> FileBytes(8)])],
     [type |-> "directory", entries |-> (<<98>> :> [type |-> "other"])]}

\* the nodes of the directories of two entries
PairNodes ==
    {[type |-> "regular", executable |-> FALSE, len |-> 0, contents |-> <<>>],
     [type |-> "regular", executable |-> TRUE, len |-> 3, contents |-> FileBytes(3)],
     [type |-> "other"],
     [type |-> "directory",
      entries |-> (<<98>> :> [type |-> "regular", executable |-> FALSE,
                            len |-> 8, contents |-> FileBytes(8)])]}

Directories ==
    {[type |-> "directory", entries |-> entries] :
        entries \in UNION ({[names -> ChildNodes] :
                               names \in {S \in SUBSET EntryNames : Cardinality(S) <= 1}}
                           \cup {[names -> PairNodes] :
                               names \in {S \in SUBSET EntryNames : Cardinality(S) = 2}})}

\* directories of three entries, as a case-insensitive filesystem holds
\* them after names that differ only by case were unpacked into it
LeafNodes ==
    {[type |-> "regular", executable |-> FALSE, len |-> 0, contents |-> <<>>],
     [type |-> "symlink", target |-> <<98>>]}

CaseHackDirectories ==
    {[type |-> "directory", entries |-> entries] :
        entries \in UNION {[names -> LeafNodes] :
                             names \in {S \in SUBSET EntryNames : Cardinality(S) = 3}}}

NarRoots ==
    RegularFiles \cup Symlinks \cup OtherNodes \cup Directories
        \cup CaseHackDirectories

InitNar ==
    /\ PushIdle
    /\ StageIdle
    /\ AddressingIdle
    /\ nar_root \in NarRoots
    /\ use_case_hack \in BOOLEAN
    /\ enumerations = <<>>
    /\ nar_result = <<>>

\* dump_path is called on the tree, and read_dir yields the names in one of
\* the orders
DumpPath ==
    /\ Len(nar_result) < MaxDumps
    /\ \E enumeration \in Enumerations :
          /\ enumerations' = Append(enumerations, enumeration)
          /\ nar_result' = Append(nar_result,
                                  dump_path(nar_root, enumeration, use_case_hack))
    /\ UNCHANGED <<nar_root, use_case_hack, push_vars, stage_vars, addressing_vars>>

NextNar == DumpPath

SpecNar == InitNar /\ [][NextNar]_vars

(***************************************************************************)
(* Properties of the codec (SpecNar)                                       *)
(***************************************************************************)
\* the number a sequence of bytes, least significant first, stands for
RECURSIVE from_le_bytes(_)
from_le_bytes(bytes) ==
    IF bytes = <<>> THEN 0 ELSE Head(bytes) + 256 * from_le_bytes(Tail(bytes))

\* the padding the format asks for after L bytes
ClaimedPadding(L) == (8 - (L % 8)) % 8

\* an archive read as a sequence of units <8-byte length L, L bytes,
\* ClaimedPadding(L) zero bytes>: the payloads in order after those of
\* `seen`, and whether the bytes are such a sequence to their end
RECURSIVE ParseUnitsAfter(_, _)
ParseUnitsAfter(seen, bytes) ==
    IF bytes = <<>> THEN [ok |-> TRUE, payloads |-> seen]
    ELSE IF Len(bytes) < 8 THEN [ok |-> FALSE, payloads |-> seen]
    ELSE LET L == from_le_bytes(SubSeq(bytes, 1, 8))
             end == 8 + L + ClaimedPadding(L)
         IN  IF /\ end <= Len(bytes)
                /\ \A i \in (8 + L + 1)..end : bytes[i] = 0
             THEN ParseUnitsAfter(Append(seen, SubSeq(bytes, 9, 8 + L)),
                                  SubSeq(bytes, end + 1, Len(bytes)))
             ELSE [ok |-> FALSE, payloads |-> seen]

ParseUnits(bytes) == ParseUnitsAfter(<<>>, bytes)

\* the names of a directory in the order of entries.sort()
SortedEntries(node) == sort(read_dir(node, CHOOSE e \in Enumerations : TRUE))

\* the payloads of the units of the archive of a tree, in order: the
\* structural tokens, the names, the targets and the file contents
RECURSIVE NodePayloads(_, _)
RECURSIVE EntryPayloads(_, _, _)
EntryPayloads(node, names, use_hack) ==
    IF names = <<>> THEN <<>>
    ELSE <<as_bytes["entry"], as_bytes["("], as_bytes["name"],
           strip_case_hack_suffix(Head(names), use_hack),
           as_bytes["node"], as_bytes["("]>>
         \o NodePayloads(node.entries[Head(names)], use_hack)
         \o <<as_bytes[")"], as_bytes[")"]>>
         \o EntryPayloads(node, Tail(names), use_hack)

NodePayloads(node, use_hack) ==
    <<as_bytes["type"]>> \o
    (IF node.type = "regular"
     THEN <<as_bytes["regular"]>>
          \o (IF node.executable THEN <<as_bytes["executable"], <<>>>> ELSE <<>>)
          \o <<as_bytes["contents"], node.contents>>
     ELSE IF node.type = "directory"
     THEN <<as_bytes["directory"]>>
          \o EntryPayloads(node, SortedEntries(node), use_hack)
     ELSE <<as_bytes["symlink"], as_bytes["target"], node.target>>)

ArchivePayloads(node, use_hack) ==
    <<NAR_VERSION_MAGIC_1, as_bytes["("]>> \o NodePayloads(node, use_hack)
    \o <<as_bytes[")"]>>

\* C20: every archive dump_path returns Ok for is, to its last byte, a
\* sequence of units <8-byte little-endian length L, L bytes, (8 - L mod 8)
\* mod 8 zero bytes>, one unit per structural token, name, target and file
\* contents, in order; so its length is a multiple of 8.
C20_UnitsPadded ==
    \A i \in 1..Len(nar_result) :
        nar_result[i].ok =>
            /\ ParseUnits(nar_result[i].written).ok
            /\ ParseUnits(nar_result[i].written).payloads
                   = ArchivePayloads(nar_root, use_case_hack)
            /\ Len(nar_result[i].written) % 8 = 0

\* dump_path returned Ok for an executable file of 8 bytes: its archive has
\* a unit of length 0, one whose length is a multiple of 8 and units that
\* need padding
C20_Witness ==
    /\ nar_result # <<>>
    /\ nar_result[1].ok
    /\ nar_root.type = "regular"
    /\ nar_root.executable
    /\ nar_root.len = 8

\* an archive read back as a tree, from the payloads of its units:
\*   [type |-> "regular", executable, contents], [type |-> "symlink", target],
\*   [type |-> "directory", names, nodes]  the names and the nodes of the
\*       entry blocks, in the order of the archive
Parsed(node, rest) == [ok |-> TRUE, node |-> <<node>>, rest |-> rest]
NotParsed == [ok |-> FALSE, node |-> <<>>, rest |-> <<>>]

\* the payload at position i is the structural token s
Token(p, i, s) == i <= Len(p) /\ p[i] = as_bytes[s]
From(p, i) == SubSeq(p, i, Len(p))

RECURSIVE ParseNode(_)
RECURSIVE ParseEntries(_, _, _)
ParseEntries(p, names, nodes) ==
    IF Token(p, 1, "entry")
    THEN IF /\ Token(p, 2, "(") /\ Token(p, 3, "name") /\ Token(p, 5, "node")
            /\ Token(p, 6, "(")
         THEN LET r == ParseNode(From(p, 7))
              IN  IF r.ok /\ Token(r.rest, 1, ")") /\ Token(r.rest, 2, ")")
                  THEN ParseEntries(From(r.rest, 3), Append(names, p[4]),
                                    Append(nodes, r.node[1]))
                  ELSE NotParsed
         ELSE NotParsed
    ELSE Parsed([type |-> "directory", names |-> names, nodes |-> nodes], p)

ParseNode(p) ==
    IF ~Token(p, 1, "type") THEN NotParsed
    ELSE IF Token(p, 2, "regular")
    THEN IF Token(p, 3, "executable") /\ Token(p, 4, "") /\ Token(p, 5, "contents")
            /\ Len(p) >= 6
         THEN Parsed([type |-> "regular", executable |-> TRUE, contents |-> p[6]],
                     From(p, 7))
         ELSE IF Token(p, 3, "contents") /\ Len(p) >= 4
         THEN Parsed([type |-> "regular", executable |-> FALSE, contents |-> p[4]],
                     From(p, 5))
         ELSE NotParsed
    ELSE IF Token(p, 2, "symlink")
    THEN IF Token(p, 3, "target") /\ Len(p) >= 4
         THEN Parsed([type |-> "symlink", target |-> p[4]], From(p, 5))
         ELSE NotParsed
    ELSE IF Token(p, 2, "directory")
    THEN ParseEntries(From(p, 3), <<>>, <<>>)
    ELSE NotParsed

\* the root node of an archive: the magic, "(", the node, ")"
ParseArchive(bytes) ==
    LET units == ParseUnits(bytes)
        p == units.payloads
        r == ParseNode(From(p, 3))
    IN  IF /\ units.ok /\ Len(p) >= 2 /\ p[1] = NAR_VERSION_MAGIC_1
           /\ Token(p, 2, "(")
        THEN IF r.ok /\ r.rest = <<as_bytes[")"]>> THEN r ELSE NotParsed
        ELSE NotParsed

\* the directories of a tree read back, the root included
RECURSIVE ParsedDirectories(_)
ParsedDirectories(node) ==
    IF node.type = "directory"
    THEN {node} \cup UNION {ParsedDirectories(node.nodes[i]) : i \in 1..Len(node.nodes)}
    ELSE {}

\* the names of the entry blocks of a directory ascend by their bytes
Ascending(names) ==
    \A i, j \in 1..Len(names) : i < j => os_str_lt(names[i], names[j])

\* the archives dump_path returned Ok for
Archives == {nar_result[i].written : i \in {k \in 1..Len(nar_result) : nar_result[k].ok}}

\* C21 as claimed: in every archive returned Ok, the names of the entry
\* blocks of every directory are in ascending order of their bytes, and two
\* archives of the same tree hold the same bytes whatever the orders in which
\* the names were enumerated, with the case hack disabled and enabled.
C21_EntriesSorted ==
    /\ \A archive \in Archives :
          /\ ParseArchive(archive).ok
          /\ \A dir \in ParsedDirectories(ParseArchive(archive).node[1]) :
                Ascending(dir.names)
    /\ \A i, j \in 1..Len(nar_result) : nar_result[i] = nar_result[j]

\* what holds of C21: the archive does not depend on the enumeration order,
\* and without the case hack the names ascend
C21_EnumerationIndependent ==
    /\ \A i, j \in 1..Len(nar_result) : nar_result[i] = nar_result[j]
    /\ ~use_case_hack =>
          \A archive \in Archives :
              /\ ParseArchive(archive).ok
              /\ \A dir \in ParsedDirectories(ParseArchive(archive).node[1]) :
                    Ascending(dir.names)

\* a directory of three names was archived twice, the names enumerated in
\* two different orders
C21_Witness ==
    /\ Len(nar_result) = 2
    /\ nar_result[1].ok
    /\ enumerations[1] # enumerations[2]
    /\ nar_root.type = "directory"
    /\ Cardinality(DOMAIN nar_root.entries) = 3

\* the byte offsets of a name at which the marker ~nix~case~hack~ starts
MarkerOffsets(name) ==
    {k \in 0..Len(name) :
        /\ k + Len(CASE_HACK_SUFFIX) <= Len(name)
        /\ \A i \in 1..Len(CASE_HACK_SUFFIX) : name[k + i] = CASE_HACK_SUFFIX[i]}

\* the name truncated at the first offset of the marker
TruncatedAtMarker(name) ==
    IF MarkerOffsets(name) = {} THEN name
    ELSE SubSeq(name, 1, CHOOSE k \in MarkerOffsets(name) :
                            \A q \in MarkerOffsets(name) : k <= q)

\* the names as the case-hack law gives them for the build
CaseHackLaw(name) == IF use_case_hack THEN TruncatedAtMarker(name) ELSE name

\* C22: with the case hack enabled strip_case_hack_suffix truncates a name
\* at the first offset of the marker, leaves a name without the marker
\* unchanged and is idempotent; with the case hack disabled it returns every
\* name unchanged. Checked on the function and on the names of the entry
\* blocks of the archive of a directory.
C22_CaseHackLaw ==
    nar_result # <<>> /\ nar_root.type = "directory" =>
        /\ \A name \in DOMAIN nar_root.entries :
              LET stripped == strip_case_hack_suffix(name, use_case_hack)
              IN  /\ stripped = CaseHackLaw(name)
                  /\ MarkerOffsets(name) = {} => stripped = name
                  /\ strip_case_hack_suffix(stripped, use_case_hack) = stripped
        /\ \A archive \in Archives :
              /\ ParseArchive(archive).ok
              /\ Range(ParseArchive(archive).node[1].names)
                     = {CaseHackLaw(name) : name \in DOMAIN nar_root.entries}

\* a directory holding a name with the marker twice and a name without it
\* was archived by a build with the case hack
C22_Witness ==
    /\ nar_result # <<>>
    /\ nar_result[1].ok
    /\ use_case_hack
    /\ nar_root.type = "directory"
    /\ DOMAIN nar_root.entries = {TwiceCaseHackName, <<98>>}

\* the same directory archived by a build without the case hack
C22_WitnessDisabled ==
    /\ nar_result # <<>>
    /\ nar_result[1].ok
    /\ ~use_case_hack
    /\ nar_root.type = "directory"
    /\ DOMAIN nar_root.entries = {TwiceCaseHackName, <<98>>}

\* the nodes of a file tree, the root included
RECURSIVE NodesOf(_)
NodesOf(node) ==
    IF node.type = "directory"
    THEN {node} \cup UNION {NodesOf(node.entries[name]) : name \in DOMAIN node.entries}
    ELSE {node}

\* the regular files of the tree that yield another number of bytes than
\* their metadata declared
ResizedFiles ==
    {node \in NodesOf(nar_root) :
        node.type = "regular" /\ Len(node.contents) # node.len}

\* C23: dump_path returns Ok only when every regular file streamed as many
\* bytes as the length declared in the archive; for a file that shrank or
\* grew after the metadata was read it fails with the size-mismatch
\* (integrity) error.
C23_SizeMismatchFails ==
    \A i \in 1..Len(nar_result) :
        /\ nar_result[i].ok => ResizedFiles = {}
        /\ nar_root.type = "regular" /\ Len(nar_root.contents) # nar_root.len
               => ~nar_result[i].ok /\ nar_result[i].error = "size mismatch"
        /\ nar_result[i].error = "size mismatch" => ResizedFiles # {}

\* dump_path was called on a file that grew after its metadata was read
C23_Witness ==
    /\ nar_result # <<>>
    /\ ~nar_result[1].ok
    /\ nar_root.type = "regular"
    /\ Len(nar_root.contents) > nar_root.len

\* dump_path was called on a directory holding a file that shrank
C23_WitnessNested ==
    /\ nar_result # <<>>
    /\ nar_result[1].error = "size mismatch"
    /\ nar_root.type = "directory"

\* C24: dump_path fails with the unsupported-type error for a tree that
\* holds, at the root or at any depth, an object that is neither a regular
\* file, a directory nor a symlink, unless it failed before reaching it; it
\* never returns Ok for such a tree.
C24_UnsupportedTypeFails ==
    \A i \in 1..Len(nar_result) :
        /\ nar_result[i].ok => \A node \in NodesOf(nar_root) : node.type # "other"
        /\ nar_root.type = "other"
               => ~nar_result[i].ok /\ nar_result[i].error = "unsupported file type"
        /\ (\E node \in NodesOf(nar_root) : node.type = "other") /\ ResizedFiles = {}
               => nar_result[i].error = "unsupported file type"

\* dump_path was called on a directory whose entry is a directory that
\* holds a fifo
C24_Witness ==
    /\ nar_result # <<>>
    /\ ~nar_result[1].ok
    /\ nar_root.type = "directory"
    /\ \E name \in DOMAIN nar_root.entries :
          /\ nar_root.entries[name].type = "directory"
          /\ \E child \in DOMAIN nar_root.entries[name].entries :
                nar_root.entries[name].entries[child].type = "other"

\* dump_path was called on a fifo
C24_WitnessRoot ==
    /\ nar_result # <<>>
    /\ ~nar_result[1].ok
    /\ nar_root.type = "other"

\* the tree read back from an archive is the file tree: a regular file with
\* its executable bit and contents, a symlink with its target, a directory
\* with exactly one entry block per child, named as the case-hack law says
RECURSIVE Matches(_, _)
Matches(parsed, node) ==
    /\ parsed.type = node.type
    /\ node.type = "regular" =>
          parsed.executable = node.executable /\ parsed.contents = node.contents
    /\ node.type = "symlink" => parsed.target = node.target
    /\ node.type = "directory" =>
          /\ Len(parsed.names) = Cardinality(DOMAIN node.entries)
          /\ \E f \in Orders(DOMAIN node.entries) :
                \A i \in 1..Len(parsed.names) :
                    /\ parsed.names[i] = CaseHackLaw(f[i])
                    /\ Matches(parsed.nodes[i], node.entries[f[i]])

\* C25: every archive dump_path returns Ok for is the token sequence magic,
\* "(", root node, ")" with nothing after it; read by the grammar of nested
\* blocks (ParseArchive, which accepts only balanced, properly nested
\* parentheses) it gives the file tree back: one block entry ( name <name>
\* node ( <node> ) ) per directory child, and executable with the empty
\* string before contents exactly for the files with an executable bit.
C25_ArchiveFraming ==
    \A archive \in Archives :
        /\ ParseArchive(archive).ok
        /\ Matches(ParseArchive(archive).node[1], nar_root)

\* an archive was produced for a directory that holds an executable file
\* and a directory holding a file
C25_Witness ==
    /\ nar_result # <<>>
    /\ nar_result[1].ok
    /\ nar_root.type = "directory"
    /\ \E x, y \in DOMAIN nar_root.entries :
          /\ nar_root.entries[x].type = "regular"
          /\ nar_root.entries[x].executable
          /\ nar_root.entries[y].type = "directory"

(***************************************************************************)
(* Addressing: nix_base32::encode (nix_base32.rs:1-31) and                 *)
(* get_store_path_hash (nix_store.rs:60-74) applied to inputs of their own. *)
(* Bytes are numbers in 0..255, the encoded string is a sequence of        *)
(* characters.                                                             *)
(***************************************************************************)
NIX_BASE32_ALPHABET ==
    <<"0", "1", "2", "3", "4", "5", "6", "7", "8", "9", "a", "b", "c", "d", "f",
      "g", "h", "i", "j", "k", "l", "m", "n", "p", "q", "r", "s", "v", "w", "x",
      "y", "z">>

\* x >> j and x << k on u8
shr(x, j) == x \div (2 ^ j)
shl(x, k) == (x * (2 ^ k)) % 256

\* a | b on the low `bits` bits
RECURSIVE bit_or(_, _, _)
bit_or(a, b, bits) ==
    IF bits = 0 THEN 0
    ELSE (IF a % 2 = 1 \/ b % 2 = 1 THEN 1 ELSE 0)
         + 2 * bit_or(a \div 2, b \div 2, bits - 1)

\* nix_base32.rs:16-27, the body of the loop: the character for the 5 bits
\* that start at bit n * 5 (input[i] of the code is input[i + 1] here)
encode_char(input, n) ==
    LET b == n * 5
        i == b \div 8
        j == b % 8
        low == IF i < Len(input) THEN shr(input[i + 1], j) ELSE 0
        c == IF i + 1 < Len(input) /\ j > 3
             THEN bit_or(low, shl(input[i + 2], 8 - j), 8)
             ELSE low
    IN  NIX_BASE32_ALPHABET[(c % 32) + 1]

\* faulty variant: the loop runs from 0 upwards
encode_Forward(input) ==
    IF input = <<>> THEN <<>>
    ELSE LET len == (Len(input) * 8 - 1) \div 5 + 1
         IN  [k \in 1..len |-> encode_char(input, k - 1)]

\* encode, nix_base32.rs:4-31: for n in (0..len).rev()
encode(input) ==
    IF input = <<>> THEN <<>>
    ELSE LET len == (Len(input) * 8 - 1) \div 5 + 1
         IN  [k \in 1..len |-> encode_char(input, len - k)]

\* the longest input of encode that is built from ByteValues
MaxHashLen == 3

ByteValues == {0, 1, 31, 165, 255}

\* SHA-256 of "hello", the known hash of test_nix_base32_encode
Sha256Hello ==
    <<44, 242, 77, 186, 95, 176, 163, 14, 38, 232, 59, 42, 197, 185, 226, 158,
      27, 22, 30, 92, 31, 167, 66, 94, 115, 4, 51, 98, 147, 139, 152, 36>>

EncodeInputs ==
    UNION {[1..n -> ByteValues] : n \in 0..MaxHashLen} \cup {Sha256Hello}

\* the paths get_store_path_hash is given: the paths of the store, the final
\* component of one of them under another directory and on its own, a name
\* without "-", and a name that starts with "-"
HashedPaths ==
    StorePaths \cup
    {<<"/", "tmp", "/", "aaa", "-", "app">>,
     <<"aaa", "-", "app">>,
     <<"/nix/store/", "ddd">>,
     <<"/nix/store/", "-", "eee">>}

\* the number of calls of get_store_path_hash that are followed
MaxHashCalls == 2

InitAddressing ==
    /\ PushIdle
    /\ StageIdle
    /\ NarIdle
    /\ encode_input \in EncodeInputs
    /\ encode_result = <<>>
    /\ hash_calls = <<>>

\* encode is called on the bytes
Encode ==
    /\ encode_result = <<>>
    /\ encode_result' = <<encode(encode_input)>>
    /\ UNCHANGED <<encode_input, hash_calls, push_vars, stage_vars, nar_vars>>

\* get_store_path_hash is called on a path
GetStorePathHash ==
    /\ Len(hash_calls) < MaxHashCalls
    /\ \E store_path \in HashedPaths :
          hash_calls' = Append(hash_calls,
                               [store_path |-> store_path,
                                hash |-> get_store_path_hash(store_path)])
    /\ UNCHANGED <<encode_input, encode_result, push_vars, stage_vars, nar_vars>>

NextAddressing == Encode \/ GetStorePathHash

SpecAddressing == InitAddressing /\ [][NextAddressing]_vars

(***************************************************************************)
(* Properties of the addressing functions (SpecAddressing)                 *)
(***************************************************************************)
\* the alphabet 0123456789abcdfghijklmnpqrsvwxyz
ClaimedAlphabet ==
    <<"0", "1", "2", "3", "4", "5", "6", "7", "8", "9", "a", "b", "c",
      "d", "f", "g", "h", "i", "j", "k", "l", "m", "n", "p", "q", "r",
      "s", "v", "w", "x", "y", "z">>

\* the value of a symbol: its position in the alphabet, from 0
SymbolValue(c) ==
    CHOOSE v \in 0..31 : ClaimedAlphabet[v + 1] = c

\* bit t of a byte string read as a number, least significant byte first
InputBit(input, t) ==
    IF t < 8 * Len(input) THEN (input[(t \div 8) + 1] \div (2 ^ (t % 8))) % 2 ELSE 0

\* the 5-bit group number n of the input, group 0 holding bits 0..4
Group(input, n) ==
    InputBit(input, 5 * n) + 2 * InputBit(input, 5 * n + 1)
        + 4 * InputBit(input, 5 * n + 2) + 8 * InputBit(input, 5 * n + 3)
        + 16 * InputBit(input, 5 * n + 4)

\* "094qif9n4cq4fdg459qzbhg1c6wywawwaaivx0k0x8xhbyx4vwic"
Sha256HelloEncoded ==
    <<"0", "9", "4", "q", "i", "f", "9", "n", "4", "c", "q", "4", "f",
      "d", "g", "4", "5", "9", "q", "z", "b", "h", "g", "1", "c", "6",
      "w", "y", "w", "a", "w", "w", "a", "a", "i", "v", "x", "0", "k",
      "0", "x", "8", "x", "h", "b", "y", "x", "4", "v", "w", "i", "c">>

\* C26: encode(b) holds only symbols of the alphabet, has length
\* ceil(len(b) * 8 / 5), is empty for the empty input, holds the 5-bit groups
\* of b with the most significant group first, and encode([0x00]) = "00",
\* encode([0xff]) = "7z" (and the known hash of the test encodes as there).
C26_Encode ==
    \A r \in 1..Len(encode_result) :
        LET out == encode_result[r]
            len == Len(out)
        IN  /\ \A k \in 1..len : out[k] \in Range(ClaimedAlphabet)
            /\ len = (Len(encode_input) * 8 + 4) \div 5
            /\ encode_input = <<>> => out = <<>>
            /\ \A k \in 1..len : SymbolValue(out[k]) = Group(encode_input, len - k)
            /\ encode_input = <<0>> => out = <<"0", "0">>
            /\ encode_input = <<255>> => out = <<"7", "z">>
            /\ encode_input = Sha256Hello => out = Sha256HelloEncoded

\* encode returned for a 3-byte input whose groups differ from each other
C26_Witness ==
    /\ encode_result # <<>>
    /\ encode_input = <<1, 31, 165>>

\* encode returned for the one-byte vectors and the known hash
C26_WitnessVectors ==
    /\ encode_result # <<>>
    /\ encode_input \in {<<0>>, <<255>>, Sha256Hello, <<>>}

\* the final component of a path: what follows its last separator
FinalComponent(p) ==
    LET seps == {i \in 1..Len(p) : p[i] \in {"/nix/store/", "/"}}
    IN  IF seps = {} THEN p
        ELSE SubSeq(p, (CHOOSE i \in seps : \A j \in seps : j <= i) + 1, Len(p))

\* h is the part of s before its first "-", all of s when it holds none
IsPartBeforeFirstDash(h, s) ==
    /\ Len(h) <= Len(s)
    /\ \A i \in 1..Len(h) : h[i] = s[i] /\ h[i] # "-"
    /\ Len(h) < Len(s) => s[Len(h) + 1] = "-"

\* C27: get_store_path_hash returns the part of the final path component
\* before its first "-"; two paths with the same final component give the
\* same hash, so a path gives the same hash at every call, wherever it
\* occurs.
C27_HashOfFinalComponent ==
    /\ \A c \in 1..Len(hash_calls) :
          IsPartBeforeFirstDash(hash_calls[c].hash,
                                FinalComponent(hash_calls[c].store_path))
    /\ \A c, d \in 1..Len(hash_calls) :
          FinalComponent(hash_calls[c].store_path)
                = FinalComponent(hash_calls[d].store_path)
              => hash_calls[c].hash = hash_calls[d].hash

\* get_store_path_hash was called on two paths of different directories
\* that end in the same component
C27_Witness ==
    /\ Len(hash_calls) = 2
    /\ hash_calls[1].store_path # hash_calls[2].store_path
    /\ FinalComponent(hash_calls[1].store_path)
           = FinalComponent(hash_calls[2].store_path)

\* get_store_path_hash was called on a name with more than one "-"
C27_WitnessDashes ==
    /\ hash_calls # <<>>
    /\ hash_calls[1].store_path = StorePathB

\* in a run of push_command: the hash a path has in the refs of the narinfo
\* object of a path that references it (main.rs:126) is the hash of the key
\* under which its own closure is negotiated (main.rs:119)
C27_SameHashAsMemberAndReference ==
    \A i, j \in NegotiateRequests :
        \A p, r \in Pushed :
            /\ api_requests[i].request.json.closure = narinfo_key_of(HashOf(p))
            /\ api_requests[j].request.json.closure = narinfo_key_of(HashOf(r))
            => \A k \in 1..Len(NixStore[p].references) :
                   NixStore[p].references[k] = r =>
                       narinfo_key_of(api_requests[i].request.json.objects[1].refs[k])
                           = api_requests[j].request.json.closure

(***************************************************************************)
(* Properties of one run (Spec): the objects at completion                 *)
(***************************************************************************)
\* the complete requests the service has received in this run
CompleteRequests ==
    {i \in 1..Len(api_requests) : Len(api_requests[i].request.url) = 3}

\* upload_pending_objects has returned Ok: complete_closures was entered
UploadsReturnedOk ==
    pc \in {"completing", "done"} \/ CompleteRequests # {}

ArchiveFailed ==
    \/ CompressFailed
    \/ error = "compress"
    \/ \E k \in puts_failed : is_nar_key(k)

\* C29: once the compression or the transfer of an archive has failed, the
\* run never is in its narinfo batch and no narinfo PUT has been or will be
\* sent; while the narinfo batch runs, and whenever a narinfo PUT has gone
\* out, every archive reported pending has been transferred.
C29_NoNarinfoAfterArchiveFailure ==
    /\ ArchiveFailed =>
          /\ pc # "narinfos"
          /\ \A k \in AllKeys : is_narinfo_key(k) => puts_sent[k] = 0
    /\ (pc = "narinfos" \/ \E k \in AllKeys : is_narinfo_key(k) /\ puts_sent[k] > 0) =>
          \A k \in PendingKeys : is_nar_key(k) => k \in transferred

\* a run failed after one archive was transferred and the transfer of
\* another one failed, the narinfos of both paths being pending
C29_Witness ==
    /\ pc = "failed"
    /\ \E k \in puts_failed : is_nar_key(k)
    /\ \E k \in transferred : is_nar_key(k)
    /\ Cardinality({k \in PendingKeys : is_narinfo_key(k)}) = 2

\* a run failed after the compression of an archive failed
C29_WitnessCompress ==
    /\ pc = "failed"
    /\ error = "compress"
    /\ \E k \in PendingKeys : is_narinfo_key(k)

\* the keys the service reported as already stored: offered in a negotiation
\* and absent from its pending objects
ReportedStored ==
    UNION {{tx.objects[j].key : j \in 1..Len(tx.objects)} \ tx.pending : tx \in Txs}

\* C30: when some transaction of the run has been completed, every object of
\* every path of the pushed closure, the paths of the other transactions
\* included, has been transferred in this run or was reported as already
\* stored, and the service stores it.
C30_AllObjectsPresentAtCompletion ==
    (\E tx \in Txs : tx.completed > 0) =>
        \A p \in Pushed :
            \A k \in {narinfo_key_of(HashOf(p)), nar_key_of(HashOf(p))} :
                /\ k \in transferred \cup ReportedStored
                /\ k \in stored

\* the first transaction of a run of two paths has been completed and the
\* second one not yet; some objects were transferred, others were stored
\* before the run
C30_Witness ==
    /\ pc = "completing"
    /\ Cardinality(Pushed) = 2
    /\ \E tx \in Txs : tx.completed > 0
    /\ \E tx \in Txs : tx.completed = 0
    /\ transferred # {}
    /\ ReportedStored # {}

\* the positions, in negotiation order, of the transactions completed
CompletedPositions == {i \in 1..Len(transactions) : transactions[i].completed > 0}

\* a complete request of the run was answered non-2xx
CompleteFailed == \E i \in CompleteRequests : ~api_requests[i].success

\* C31: the transactions completed are always the first ones in negotiation
\* order, and each step completes at most the next one; once a complete
\* request has failed the push has returned that failure and no transaction
\* is completed any more; a transaction that is completed stays completed.
C31_CompletedInOrderNoRollback ==
    [][/\ CompletedPositions' = 1..Cardinality(CompletedPositions')
       /\ Cardinality(CompletedPositions') <= Cardinality(CompletedPositions) + 1
       /\ CompletedPositions \subseteq CompletedPositions'
       /\ CompleteFailed' => pc' = "failed" /\ error' = "complete"
       /\ CompleteFailed => transactions' = transactions]_vars

\* a run of three transactions failed at its second complete request: the
\* first transaction is completed, the other two are not
C31_Witness ==
    /\ pc = "failed"
    /\ CompleteFailed
    /\ Len(transactions) = 3
    /\ CompletedPositions = {1}

(***************************************************************************)
(* Size, digest and Content-Length of a staged artifact                    *)
(***************************************************************************)

\* the digest of a sequence of bytes, in the form compress_nar_to_file
\* records it
Sha256Of(bytes) == <<"sha256:", bytes>>

\* C32: for every staged artifact the recorded size is the number of
\* compressed bytes written to its temp file and the recorded digest is
\* that of exactly those bytes in the order written; the Content-Length of
\* the archive's PUT is that size, and the number of bytes of its body.
C32_SizeDigestContentLength ==
    \A t \in StageTasks :
        /\ \A c \in stage[t].compressed_file :
              /\ c.size = chunk_len(stage[t].file)
              /\ c.hash = Sha256Of(stage[t].file)
              /\ stage[t].file = [i \in 1..(stage[t].nar_len \div PipeBlock) |-> i]
        /\ \A request \in Range(stage[t].put) :
              /\ request.content_length = chunk_len(stage[t].file)
              /\ request.content_length = chunk_len(request.body)

\* the PUT of an artifact of two compressed blocks is out
C32_Witness ==
    \E t \in StageTasks :
        /\ stage[t].pc = "put"
        /\ stage[t].put # <<>>
        /\ stage[t].put[1].content_length = 2 * (PipeBlock \div 2)
        /\ stage[t].file = <<1, 2>>

\* a write to the temp file failed after the chunk had been hashed and
\* counted: the count is ahead of the file, and no artifact is staged
C32_WitnessWriteFailed ==
    \E t \in StageTasks :
        /\ stage[t].result = Err("copy")
        /\ stage[t].size_tracker > chunk_len(stage[t].file)
        /\ stage[t].compressed_file = {}

(***************************************************************************)
(* The URL and Compression fields of an uploaded narinfo                   *)
(***************************************************************************)

\* the narinfo keys whose PUT the service has received in this run
NarinfoPuts == {k \in DOMAIN sent_bodies : is_narinfo_key(k)}

\* the keys offered in the negotiation of the closure named by a narinfo key
OfferedFor(narinfo_key) ==
    UNION {{api_requests[i].request.json.objects[n].key :
               n \in 1..Len(api_requests[i].request.json.objects)} :
           i \in {j \in NegotiateRequests :
                     api_requests[j].request.json.closure = narinfo_key}}

\* C33: the URL field of every narinfo push has uploaded is the archive key
\* offered for its path in negotiation, nar/<hash>.nar.zst with the hash of
\* the narinfo's StorePath, and its Compression field is zstd, as the suffix
\* of that key says.
C33_UrlIsOfferedArchiveKey ==
    \A k \in NarinfoPuts :
        LET body == sent_bodies[k].body
            url == Field(body, "URL")
        IN  /\ url \in OfferedFor(k)
            /\ is_nar_key(url)
            /\ url = nar_key_of(get_store_path_hash(Field(body, "StorePath")))
            /\ k = narinfo_key_of(get_store_path_hash(Field(body, "StorePath")))
            /\ ends_with(url, ".nar.zst")
            /\ Field(body, "Compression") = <<"zstd">>

\* push returned Ok having uploaded the narinfos of two paths
C33_Witness ==
    /\ pc = "done"
    /\ Cardinality(NarinfoPuts) = 2

(***************************************************************************)
(* Progress of the producer/consumer pipeline                              *)
(***************************************************************************)

\* copy has read from the pipe, and hashed, counted and written the chunk
ConsumerRead(t) == ConsumerCopy(t) /\ stage'[t].pc = "copy"

\* the next step of the spawned producer task (upload.rs:221-224) that is
\* not a failure of dump_path itself
ProducerStep(t) ==
    \/ ProducerWrite(t)
    \/ ProducerBrokenPipe(t)
    \/ ProducerFinish(t)

\* the next step of the future of compress_nar_to_file (upload.rs:214-247)
\* that is not a failure of the copy
ConsumerStep(t) ==
    \/ StageAllocate(t)
    \/ StageCreateFile(t)
    \/ ConsumerRead(t)
    \/ ConsumerEof(t)
    \/ StageJoin(t)

\* The tokio runtime polls every task that can make progress: the spawned
\* producer when the pipe has room, its read end is gone or the archive is
\* written; the future of compress_nar_to_file when the file can be
\* created, the pipe holds bytes or is at end of stream, or the producer
\* has returned.  No failure is required to happen.
StageFairness ==
    \A t \in StageTasks :
        /\ WF_vars(ProducerStep(t))
        /\ WF_vars(ConsumerStep(t))

SpecStageFair == SpecStage /\ StageFairness

\* compress_nar_to_file has returned: a CompressedFile or an error
Returned(t) ==
    /\ stage[t].pc = "compressed"
    /\ \/ stage[t].result = Ok("compressed") /\ stage[t].compressed_file # {}
       \/ ~stage[t].result.ok /\ stage[t].compressed_file = {}

\* compress_nar_to_file has returned, now or earlier, and its producer task
\* has ended
PipelineOver(t) ==
    /\ \/ Returned(t)
       \/ stage[t].pc \in {"put", "finished"}
    /\ stage[t].nar_task \in {"ok", "err"}

\* C34: under fair scheduling every compress_nar_to_file returns a staged
\* artifact or an error, and its producer task ends: from some point on no
\* producer is left blocked on a pipe nobody reads and no consumer on a
\* pipe nobody writes.
C34_PipelineReturns == <>[](\A t \in StageTasks : PipelineOver(t))

\* the producer failed with the archive partly written; the consumer drained
\* the pipe, saw end of stream, and the producer's error was returned
C34_Witness ==
    \E t \in StageTasks :
        /\ Returned(t)
        /\ stage[t].result = Err("producer")
        /\ stage[t].nar_task = "err"
        /\ stage[t].pipe = 0
        /\ stage[t].consumed = stage[t].produced
        /\ stage[t].produced > 0
        /\ stage[t].produced < stage[t].nar_len

\* the consumer stopped on a copy error while the pipe was full and the
\* producer had more to write; the producer ended with an error
C34_WitnessConsumerStopped ==
    \E t \in StageTasks :
        /\ Returned(t)
        /\ stage[t].result = Err("copy")
        /\ stage[t].pipe = DuplexCapacity
        /\ stage[t].produced < stage[t].nar_len
        /\ stage[t].nar_task = "err"

(***************************************************************************)
(* Termination of push                                                     *)
(***************************************************************************)

\* Every request and every compression returns, and the runtime polls
\* push_command whenever it can go on: each step of the run is taken if it
\* stays possible.  The process is not required to be killed.
PushFairness ==
    /\ WF_vars(GetPathInfo)
    /\ WF_vars(Negotiate)
    /\ WF_vars(StartUploads)
    /\ WF_vars(CompressStart)
    /\ WF_vars(CompressFinish)
    /\ WF_vars(CompressCollect)
    /\ WF_vars(UploadStart)
    /\ WF_vars(UploadFinish)
    /\ WF_vars(UploadCollect)
    /\ WF_vars(NarinfoStart)
    /\ WF_vars(NarinfoFinish)
    /\ WF_vars(NarinfoCollect)
    /\ WF_vars(Complete)
    /\ WF_vars(Finish)

SpecFair == Spec /\ PushFairness

\* push_command has returned, or the process was killed
Terminated == pc \in {"done", "failed", "crashed"}

\* C35 as claimed: for every bound the command line accepts, 0 included,
\* push eventually returns Ok or Err, unless the process is killed.
C35_PushTerminates == <>Terminated

\* the part of C35 the code keeps: with a bound of at least 1 push
\* eventually returns
C35_TerminatesWithPositiveBound == (max_concurrent_uploads >= 1) => <>Terminated

\* a batch under a bound of 0: nothing is in progress, no future is ever
\* pulled from the source stream, and collect() does not return
BatchStuck ==
    /\ pc \in {"compressing", "uploading", "narinfos"}
    /\ max_concurrent_uploads = 0
    /\ in_flight = {}
    /\ ~ENABLED (Next /\ pc' # "crashed")

(***************************************************************************)
(* Temp-file paths of one UploadTempDir                                    *)
(***************************************************************************)

\* the tasks that have allocated their temp path
Allocated == {t \in StageTasks : stage[t].temp_path # None}

\* C36: the temp paths allocated from the UploadTempDir are pairwise
\* distinct, whatever the order in which the compression tasks run, so
\* every staged file is the file of exactly one task: no two tasks write,
\* read or delete the same file.
C36_TempPathsDistinct ==
    /\ \A t1, t2 \in Allocated :
          stage[t1].temp_path = stage[t2].temp_path => t1 = t2
    /\ \A f \in temp_files :
          Cardinality({t \in Allocated : stage[t].temp_path = f}) = 1
    /\ Cardinality(Allocated) = file_counter

\* two compression tasks copy into their temp files at the same time, the
\* second task having allocated its path first
C36_Witness ==
    /\ stage[1].pc = "copy"
    /\ stage[2].pc = "copy"
    /\ stage[2].temp_path = allocate_temp_path(0)
    /\ stage[1].temp_path = allocate_temp_path(1)
    /\ Cardinality(temp_files) = 2

(***************************************************************************)
(* Compression batch before transfer batch                                 *)
(***************************************************************************)

\* compress_nar_to_file of the task has not returned yet
Compressing(t) == stage[t].pc \in {"new", "create", "copy", "join"}

\* the tasks that hold a staged artifact
Staged == {t \in StageTasks : stage[t].compressed_file # {}}

\* C37: a step that sends the PUT of an archive is taken only when the
\* compression of every pending archive has returned, with a CompressedFile
\* or an error; the staged artifacts and their files are at most as many as
\* the pending archives, whatever max_concurrent_uploads is.
C37_TransfersAfterAllCompressions ==
    [][/\ \A t \in StageTasks :
             stage'[t].pc = "put" /\ stage[t].pc # "put" =>
                 \A u \in StageTasks : ~Compressing(u)
       /\ \A t \in StageTasks :
             stage[t].pc \in {"put", "finished"} => ~Compressing(t)'
       /\ Cardinality(Staged') <= Cardinality(StageTasks)
       /\ Cardinality(temp_files') <= Cardinality(StageTasks)]_vars

\* the artifacts of all pending archives are staged and their files on
\* disk, more of them than max_concurrent_uploads, and no transfer has
\* started
C37_Witness ==
    /\ Staged = StageTasks
    /\ Cardinality(temp_files) = Cardinality(StageTasks)
    /\ Cardinality(temp_files) > max_concurrent_uploads
    /\ max_concurrent_uploads >= 1
    /\ \A t \in StageTasks : stage[t].pc = "compressed"

============================================================================
